---- MODULE Spec2Model ----
(***************************************************************************)
(* State-machine model of the ledger contracts of trae-medsecure-apps:     *)
(*   ConsentContract  (smart_contracts/ConsentContract.sol)                *)
(*   AuditContract    (smart_contracts/DataHashContract.sol, second half)  *)
(* and, in the last part, of the route guard of its frontend               *)
(*   AuthProvider, ProtectedRoute  (frontend/src/App.js).                  *)
(* Every public function is one action; a reverted call leaves the        *)
(* contract storage and the event log as they were and is visible only in  *)
(* lastCall (the transaction receipt: status and revert reason).  The      *)
(* caller sends one transaction at a time: it reads the receipt (Dismiss)  *)
(* before it sends the next one.                                           *)
(***************************************************************************)
EXTENDS Integers, Sequences, FiniteSets, TLC

VARIABLES
    now,                \* block.timestamp
    consents,           \* ConsentContract.consents
    consentEvents,      \* events emitted by ConsentContract, in emission order
    accessLogs,         \* AuditContract.accessLogs
    patientAccessLogs,  \* AuditContract.patientAccessLogs
    auditEvents,        \* events emitted by AuditContract, in emission order
    dataHashes,         \* DataHashContract.dataHashes
    ownerDataIds,       \* DataHashContract.ownerDataIds
    hashEvents,         \* events emitted by DataHashContract, in emission order
    lastCall,           \* receipt of the transaction just run, not yet read
    user,               \* AuthProvider's user state (frontend/src/App.js)
    loading,            \* AuthProvider's loading state
    token,              \* localStorage item 'token'
    location            \* the browser's current path

consentVars == <<consents, consentEvents>>
auditVars == <<accessLogs, patientAccessLogs, auditEvents>>
hashVars == <<dataHashes, ownerDataIds, hashEvents>>
authVars == <<user, loading, token, location>>
vars == <<now, consents, consentEvents, accessLogs, patientAccessLogs, auditEvents,
          dataHashes, ownerDataIds, hashEvents, lastCall,
          user, loading, token, location>>

----------------------------------------------------------------------------
(* Bounds of the model *)

\* block.timestamp and every timestamp argument range over 0..MaxTime
MaxTime == 2
\* at most MaxEvents transactions of ConsentContract commit
MaxEvents == 2
\* at most MaxLogs transactions of AuditContract commit
MaxLogs == 3
\* at most MaxHashes transactions of DataHashContract commit
MaxHashes == 2
\* at most MaxLedgerOps transactions commit when the three contracts run together
MaxLedgerOps == 2
\* at most MaxAccessOps transactions commit when ConsentContract and
\* AuditContract run together
MaxAccessOps == 3

----------------------------------------------------------------------------
(* Input domains *)

\* useState(null): no user is signed in
NoUser == [null |-> TRUE]
\* localStorage.getItem('token') returns null
NoToken == [null |-> TRUE]

\* address(0)
NullAddress == 0
\* accounts that can sign a transaction (msg.sender is never address(0))
Senders == {1, 2}
Addresses == {NullAddress} \cup Senders
Timestamps == 0 .. MaxTime
\* the <<accessLevel, purpose>> pairs callers pass; the contract accepts any
\* two strings, the empty one included
ConsentTerms == {<<"full", "checkup">>, <<"limited", "">>}
ResourceIds == {"", "rec-1"}
AccessTypes == {"", "view"}
DataIds == {"", "rec-1", "rec-2"}
DataHashValues == {"", "abc123", "def456"}
DataTypes == {"", "lab_result", "prescription"}

\* "no revert": the call ran to its end
NoError == ""

Receipt(op, args, err) == [op |-> op, args |-> args, ok |-> (err = NoError), err |-> err]

NoReceipt == Receipt("none", <<>>, NoError)

\* the caller has read the receipt of its previous transaction
Idle == lastCall = NoReceipt

----------------------------------------------------------------------------
(* ConsentContract *)

\* the zero value of struct Consent: what an unset mapping slot reads as and
\* what `delete` leaves behind
EmptyConsent ==
    [exists |-> FALSE, accessLevel |-> "", startDate |-> 0, endDate |-> 0, purpose |-> ""]

ConsentGranted(patient, provider, accessLevel, startDate, endDate, purpose) ==
    [name |-> "ConsentGranted", patient |-> patient, provider |-> provider,
     accessLevel |-> accessLevel, startDate |-> startDate, endDate |-> endDate,
     purpose |-> purpose]

ConsentRevoked(patient, provider) ==
    [name |-> "ConsentRevoked", patient |-> patient, provider |-> provider]

\* mutant: the third require accepts endDate = block.timestamp
grantConsentRevert_acceptsNow(provider, startDate, endDate) ==
    IF ~(provider # NullAddress) THEN "Invalid provider address"
    ELSE IF ~(startDate < endDate) THEN "End date must be after start date"
    ELSE IF ~(endDate >= now) THEN "End date must be in the future"
    ELSE NoError

\* mutant: the third require is missing
grantConsentRevert_noFutureCheck(provider, startDate, endDate) ==
    IF ~(provider # NullAddress) THEN "Invalid provider address"
    ELSE IF ~(startDate < endDate) THEN "End date must be after start date"
    ELSE NoError

\* the require statements of grantConsent, in order: the reason of the first
\* one that fails, NoError when all pass
grantConsentRevert(provider, startDate, endDate) ==
    IF ~(provider # NullAddress) THEN "Invalid provider address"
    ELSE IF ~(startDate < endDate) THEN "End date must be after start date"
    ELSE IF ~(endDate > now) THEN "End date must be in the future"
    ELSE NoError

\* mutant: a grant over an existing one keeps the purpose already stored
storeConsent_keepsPurpose(sender, provider, accessLevel, startDate, endDate, purpose) ==
    [consents EXCEPT ![sender][provider] =
        [exists |-> TRUE, accessLevel |-> accessLevel, startDate |-> startDate,
         endDate |-> endDate,
         purpose |-> IF consents[sender][provider].exists
                     THEN consents[sender][provider].purpose ELSE purpose]]

\* consents[msg.sender][provider] = Consent({...})
\* mutant: the consent is stored with the provider as the patient
storeConsent_underProvider(sender, provider, accessLevel, startDate, endDate, purpose) ==
    [consents EXCEPT ![provider][sender] =
        [exists |-> TRUE, accessLevel |-> accessLevel, startDate |-> startDate,
         endDate |-> endDate, purpose |-> purpose]]

\* mutant: the consent is also stored for the pair the other way round
storeConsent_bothWays(sender, provider, accessLevel, startDate, endDate, purpose) ==
    [consents EXCEPT
        ![sender][provider] =
            [exists |-> TRUE, accessLevel |-> accessLevel, startDate |-> startDate,
             endDate |-> endDate, purpose |-> purpose],
        ![provider][sender] =
            [exists |-> TRUE, accessLevel |-> accessLevel, startDate |-> startDate,
             endDate |-> endDate, purpose |-> purpose]]

storeConsent(sender, provider, accessLevel, startDate, endDate, purpose) ==
    [consents EXCEPT ![sender][provider] =
        [exists |-> TRUE, accessLevel |-> accessLevel, startDate |-> startDate,
         endDate |-> endDate, purpose |-> purpose]]

\* mutant: a successful grant also writes an entry to the access log
grantConsent_logsAccess(sender, provider, accessLevel, startDate, endDate, purpose) ==
    LET err == grantConsentRevert(provider, startDate, endDate) IN
    /\ Idle
    /\ lastCall' = Receipt("grantConsent", <<sender, provider, startDate, endDate>>, err)
    /\ IF err = NoError
       THEN /\ Len(consentEvents) < MaxEvents
            /\ consents' = storeConsent(sender, provider, accessLevel, startDate, endDate, purpose)
            /\ consentEvents' = Append(consentEvents,
                   ConsentGranted(sender, provider, accessLevel, startDate, endDate, purpose))
            /\ accessLogs' = Append(accessLogs,
                   [patient |-> sender, accessor |-> provider, resourceId |-> "consent",
                    accessType |-> "grant", timestamp |-> now])
            /\ UNCHANGED <<patientAccessLogs, auditEvents>>
       ELSE UNCHANGED <<consentVars, auditVars>>
    /\ UNCHANGED <<now, hashVars, authVars>>

grantConsent(sender, provider, accessLevel, startDate, endDate, purpose) ==
    LET err == grantConsentRevert(provider, startDate, endDate) IN
    /\ Idle
    /\ lastCall' = Receipt("grantConsent", <<sender, provider, startDate, endDate>>, err)
    /\ IF err = NoError
       THEN /\ Len(consentEvents) < MaxEvents
            /\ consents' = storeConsent(sender, provider, accessLevel, startDate, endDate, purpose)
            /\ consentEvents' = Append(consentEvents,
                   ConsentGranted(sender, provider, accessLevel, startDate, endDate, purpose))
       ELSE UNCHANGED consentVars
    /\ UNCHANGED <<now, auditVars, hashVars, authVars>>

\* mutant: the existence check is missing
revokeConsentRevert_noExistsCheck(sender, provider) ==
    IF ~(provider # NullAddress) THEN "Invalid provider address"
    ELSE NoError

\* mutant: only a consent that is still in its window can be revoked
revokeConsentRevert_onlyValid(sender, provider) ==
    IF ~(provider # NullAddress) THEN "Invalid provider address"
    ELSE IF ~consents[sender][provider].exists THEN "Consent does not exist"
    ELSE IF ~(now <= consents[sender][provider].endDate) THEN "Consent does not exist"
    ELSE NoError

\* the require statements of revokeConsent
revokeConsentRevert(sender, provider) ==
    IF ~(provider # NullAddress) THEN "Invalid provider address"
    ELSE IF ~consents[sender][provider].exists THEN "Consent does not exist"
    ELSE NoError

\* mutant: only the exists flag is cleared
deleteConsent_flagOnly(sender, provider) ==
    [consents EXCEPT ![sender][provider].exists = FALSE]

\* delete consents[msg.sender][provider]
deleteConsent(sender, provider) ==
    [consents EXCEPT ![sender][provider] = EmptyConsent]

revokeConsent(sender, provider) ==
    LET err == revokeConsentRevert(sender, provider) IN
    /\ Idle
    /\ lastCall' = Receipt("revokeConsent", <<sender, provider>>, err)
    /\ IF err = NoError
       THEN /\ Len(consentEvents) < MaxEvents
            /\ consents' = deleteConsent(sender, provider)
            /\ consentEvents' = Append(consentEvents, ConsentRevoked(sender, provider))
       ELSE UNCHANGED consentVars
    /\ UNCHANGED <<now, auditVars, hashVars, authVars>>

\* mutant: the end of the window is exclusive
checkConsent_exclusiveEnd(patient, provider) ==
    LET consent == consents[patient][provider] IN
    << consent.exists /\ now >= consent.startDate /\ now < consent.endDate,
       consent.accessLevel,
       consent.startDate,
       consent.endDate,
       consent.purpose >>

\* view: (valid, accessLevel, startDate, endDate, purpose)
checkConsent(patient, provider) ==
    LET consent == consents[patient][provider] IN
    << consent.exists /\ now >= consent.startDate /\ now <= consent.endDate,
       consent.accessLevel,
       consent.startDate,
       consent.endDate,
       consent.purpose >>

\* mutant: the end of the window is not checked
hasValidConsent_noEnd(patient, provider) ==
    LET consent == consents[patient][provider] IN
    /\ consent.exists
    /\ now >= consent.startDate

\* mutant: the start of the window is not checked
hasValidConsent_noStart(patient, provider) ==
    LET consent == consents[patient][provider] IN
    /\ consent.exists
    /\ now <= consent.endDate

\* view
hasValidConsent(patient, provider) ==
    LET consent == consents[patient][provider] IN
    /\ consent.exists
    /\ now >= consent.startDate
    /\ now <= consent.endDate

\* a later block: block.timestamp never goes back
Tick ==
    /\ now < MaxTime
    /\ now' = now + 1
    /\ lastCall' = NoReceipt
    /\ UNCHANGED <<consentVars, auditVars, hashVars, authVars>>

\* a block later than every timestamp a caller of the model passes
TickPast ==
    /\ now = MaxTime
    /\ now' = now + 1
    /\ lastCall' = NoReceipt
    /\ UNCHANGED <<consentVars, auditVars, hashVars, authVars>>

\* the caller reads the receipt
Dismiss ==
    /\ ~Idle
    /\ lastCall' = NoReceipt
    /\ UNCHANGED <<now, consentVars, auditVars, hashVars, authVars>>

----------------------------------------------------------------------------
(* AuditContract *)

AccessLog(patient, accessor, resourceId, accessType, timestamp) ==
    [patient |-> patient, accessor |-> accessor, resourceId |-> resourceId,
     accessType |-> accessType, timestamp |-> timestamp]

AccessLogged(patient, accessor, resourceId, accessType, timestamp) ==
    [name |-> "AccessLogged", patient |-> patient, accessor |-> accessor,
     resourceId |-> resourceId, accessType |-> accessType, timestamp |-> timestamp]

\* bytes(s).length
StrLen(s) == IF s = "" THEN 0 ELSE 1

\* mutant: the access type is not checked
logAccessRevert_noAccessTypeCheck(patient, accessor, resourceId, accessType) ==
    IF ~(patient # NullAddress) THEN "Invalid patient address"
    ELSE IF ~(accessor # NullAddress) THEN "Invalid accessor address"
    ELSE IF ~(StrLen(resourceId) > 0) THEN "Resource ID cannot be empty"
    ELSE NoError

\* mutant: an access that is already in the log is rejected
logAccessRevert_rejectsRepeat(patient, accessor, resourceId, accessType) ==
    IF ~(patient # NullAddress) THEN "Invalid patient address"
    ELSE IF ~(accessor # NullAddress) THEN "Invalid accessor address"
    ELSE IF ~(StrLen(resourceId) > 0) THEN "Resource ID cannot be empty"
    ELSE IF ~(StrLen(accessType) > 0) THEN "Access type cannot be empty"
    ELSE IF \E k \in 1 .. Len(accessLogs) :
                /\ accessLogs[k].patient = patient
                /\ accessLogs[k].accessor = accessor
                /\ accessLogs[k].resourceId = resourceId
                /\ accessLogs[k].accessType = accessType
         THEN "Access already logged"
    ELSE NoError

\* mutant: an access is logged only for an accessor with a valid consent
logAccessRevert_requiresConsent(patient, accessor, resourceId, accessType) ==
    IF ~(patient # NullAddress) THEN "Invalid patient address"
    ELSE IF ~(accessor # NullAddress) THEN "Invalid accessor address"
    ELSE IF ~(StrLen(resourceId) > 0) THEN "Resource ID cannot be empty"
    ELSE IF ~(StrLen(accessType) > 0) THEN "Access type cannot be empty"
    ELSE IF ~hasValidConsent(patient, accessor) THEN "No valid consent"
    ELSE NoError

\* the require statements of logAccess, in order
logAccessRevert(patient, accessor, resourceId, accessType) ==
    IF ~(patient # NullAddress) THEN "Invalid patient address"
    ELSE IF ~(accessor # NullAddress) THEN "Invalid accessor address"
    ELSE IF ~(StrLen(resourceId) > 0) THEN "Resource ID cannot be empty"
    ELSE IF ~(StrLen(accessType) > 0) THEN "Access type cannot be empty"
    ELSE NoError

\* mutant: the new log is written over the last slot instead of pushed
pushAccessLog_overwritesLast(log) ==
    IF accessLogs = <<>> THEN <<log>>
    ELSE [accessLogs EXCEPT ![Len(accessLogs)] = log]

\* accessLogs.push(log)
pushAccessLog(log) == Append(accessLogs, log)

\* mutant: the length is used as the index
newLogIndex_length(logs) == Len(logs)

\* uint256 logIndex = accessLogs.length - 1, read after the push
newLogIndex(logs) == Len(logs) - 1

\* mutant: the index is pushed under the patient and under the accessor
indexAccessLog_bothParties(patient, accessor, logIndex) ==
    [address \in Addresses |->
        IF address \in {patient, accessor}
        THEN Append(patientAccessLogs[address], logIndex)
        ELSE patientAccessLogs[address]]

\* mutant: the log is pushed and its index is not recorded
indexAccessLog_none(patient, accessor, logIndex) == patientAccessLogs

\* mutant: the index is pushed under the accessor instead of the patient
indexAccessLog_underAccessor(patient, accessor, logIndex) ==
    [patientAccessLogs EXCEPT ![accessor] = Append(@, logIndex)]

\* patientAccessLogs[patient].push(logIndex)
indexAccessLog(patient, accessor, logIndex) ==
    [patientAccessLogs EXCEPT ![patient] = Append(@, logIndex)]

logAccess(patient, accessor, resourceId, accessType, timestamp) ==
    LET err == logAccessRevert(patient, accessor, resourceId, accessType)
        log == AccessLog(patient, accessor, resourceId, accessType, timestamp)
    IN
    /\ Idle
    /\ lastCall' = Receipt("logAccess", <<patient, accessor, resourceId, accessType>>, err)
    /\ IF err = NoError
       THEN /\ Len(auditEvents) < MaxLogs
            /\ accessLogs' = pushAccessLog(log)
            /\ patientAccessLogs' = indexAccessLog(patient, accessor, newLogIndex(accessLogs'))
            /\ auditEvents' = Append(auditEvents,
                   AccessLogged(patient, accessor, resourceId, accessType, timestamp))
       ELSE UNCHANGED auditVars
    /\ UNCHANGED <<now, consentVars, hashVars, authVars>>

\* view
getAccessLogCount(patient) == Len(patientAccessLogs[patient])

\* what a view call gives its caller: the returned value, or the revert reason
Returned(value) == [ok |-> TRUE, err |-> NoError, value |-> value]
Reverted(err) == [ok |-> FALSE, err |-> err, value |-> <<>>]

\* mutant: the index is used as a position in accessLogs directly
patientLogIndex_direct(patient, index) == index

\* uint256 logIndex = patientAccessLogs[patient][index]
patientLogIndex(patient, index) == patientAccessLogs[patient][index + 1]

\* view: (patient, accessor, resourceId, accessType, timestamp)
getAccessLog(patient, index) ==
    IF ~(index < Len(patientAccessLogs[patient])) THEN Reverted("Index out of bounds")
    ELSE LET logIndex == patientLogIndex(patient, index)
             log == accessLogs[logIndex + 1]
         IN  Returned(<<log.patient, log.accessor, log.resourceId, log.accessType,
                        log.timestamp>>)

\* mutant: the end of the range is exclusive
inTimeRange_exclusiveEnd(log, startTime, endTime) ==
    log.timestamp >= startTime /\ log.timestamp < endTime

\* log.timestamp >= startTime && log.timestamp <= endTime
inTimeRange(log, startTime, endTime) ==
    log.timestamp >= startTime /\ log.timestamp <= endTime

\* first pass of getAccessLogsInTimeRange, from loop index i with count
\* matches so far: for (; i < patientLogs.length && count < maxResults; i++)
RECURSIVE timeRangeCount(_, _, _, _, _, _)
timeRangeCount(patientLogs, startTime, endTime, maxResults, i, count) ==
    IF i < Len(patientLogs) /\ count < maxResults
    THEN LET log == accessLogs[patientLogs[i + 1] + 1] IN
         timeRangeCount(patientLogs, startTime, endTime, maxResults, i + 1,
             IF inTimeRange(log, startTime, endTime) THEN count + 1 ELSE count)
    ELSE count

\* new uint256[](n): n slots holding 0
NewArray(n) == [k \in 1 .. n |-> 0]

\* mutant: the second pass tests the end of the range with < where the
\* first pass tests it with <=
RECURSIVE timeRangeFill_otherTest(_, _, _, _, _, _)
timeRangeFill_otherTest(patientLogs, startTime, endTime, result, i, count) ==
    IF i < Len(patientLogs) /\ count < Len(result)
    THEN LET log == accessLogs[patientLogs[i + 1] + 1] IN
         IF log.timestamp >= startTime /\ log.timestamp < endTime
         THEN timeRangeFill_otherTest(patientLogs, startTime, endTime,
                  [result EXCEPT ![count + 1] = patientLogs[i + 1]], i + 1, count + 1)
         ELSE timeRangeFill_otherTest(patientLogs, startTime, endTime, result, i + 1, count)
    ELSE result

\* second pass: for (; i < patientLogs.length && count < result.length; i++)
RECURSIVE timeRangeFill(_, _, _, _, _, _)
timeRangeFill(patientLogs, startTime, endTime, result, i, count) ==
    IF i < Len(patientLogs) /\ count < Len(result)
    THEN LET log == accessLogs[patientLogs[i + 1] + 1] IN
         IF inTimeRange(log, startTime, endTime)
         THEN timeRangeFill(patientLogs, startTime, endTime,
                  [result EXCEPT ![count + 1] = patientLogs[i + 1]], i + 1, count + 1)
         ELSE timeRangeFill(patientLogs, startTime, endTime, result, i + 1, count)
    ELSE result

\* mutant: an empty range (startTime = endTime) is rejected
timeRangeRevert_strict(startTime, endTime) ==
    IF ~(startTime < endTime) THEN "Start time must be before end time" ELSE NoError

\* the require statement of getAccessLogsInTimeRange
timeRangeRevert(startTime, endTime) ==
    IF ~(startTime <= endTime) THEN "Start time must be before end time" ELSE NoError

\* view: the log indices that match
getAccessLogsInTimeRange(patient, startTime, endTime, maxResults) ==
    LET err == timeRangeRevert(startTime, endTime) IN
    IF err # NoError THEN Reverted(err)
    ELSE LET patientLogs == patientAccessLogs[patient]
             count == timeRangeCount(patientLogs, startTime, endTime, maxResults, 0, 0)
         IN  Returned(timeRangeFill(patientLogs, startTime, endTime, NewArray(count), 0, 0))

\* mutant: the first pass does not stop at maxResults
RECURSIVE accessorCount_noCap(_, _, _, _)
accessorCount_noCap(accessor, maxResults, i, count) ==
    IF i < Len(accessLogs)
    THEN accessorCount_noCap(accessor, maxResults, i + 1,
             IF accessLogs[i + 1].accessor = accessor THEN count + 1 ELSE count)
    ELSE count

\* first pass of getAccessLogsByAccessor:
\* for (; i < accessLogs.length && count < maxResults; i++)
RECURSIVE accessorCount(_, _, _, _)
accessorCount(accessor, maxResults, i, count) ==
    IF i < Len(accessLogs) /\ count < maxResults
    THEN accessorCount(accessor, maxResults, i + 1,
             IF accessLogs[i + 1].accessor = accessor THEN count + 1 ELSE count)
    ELSE count

\* second pass: for (; i < accessLogs.length && count < result.length; i++)
RECURSIVE accessorFill(_, _, _, _)
accessorFill(accessor, result, i, count) ==
    IF i < Len(accessLogs) /\ count < Len(result)
    THEN IF accessLogs[i + 1].accessor = accessor
         THEN accessorFill(accessor, [result EXCEPT ![count + 1] = i], i + 1, count + 1)
         ELSE accessorFill(accessor, result, i + 1, count)
    ELSE result

\* view: the log indices that match; it has no require
getAccessLogsByAccessor(accessor, maxResults) ==
    LET count == accessorCount(accessor, maxResults, 0, 0) IN
    Returned(accessorFill(accessor, NewArray(count), 0, 0))

----------------------------------------------------------------------------
(* DataHashContract *)

\* the zero value of struct DataHashRecord: what an unset mapping slot reads as
EmptyRecord ==
    [dataHash |-> "", timestamp |-> 0, dataType |-> "", owner |-> NullAddress,
     exists |-> FALSE]

DataHashStored(dataId, dataHash, dataType, timestamp, owner) ==
    [name |-> "DataHashStored", dataId |-> dataId, dataHash |-> dataHash,
     dataType |-> dataType, timestamp |-> timestamp, owner |-> owner]

\* mutant: the update branch emits the event of the create branch
DataHashUpdated_asStored(dataId, oldHash, newHash, timestamp, owner) ==
    DataHashStored(dataId, newHash, "", timestamp, owner)

\* mutant: the event names the owner of the record, not msg.sender
DataHashUpdated_namesOwner(dataId, oldHash, newHash, timestamp, owner) ==
    [name |-> "DataHashUpdated", dataId |-> dataId, oldHash |-> oldHash,
     newHash |-> newHash, timestamp |-> timestamp, owner |-> dataHashes[dataId].owner]

DataHashUpdated(dataId, oldHash, newHash, timestamp, owner) ==
    [name |-> "DataHashUpdated", dataId |-> dataId, oldHash |-> oldHash,
     newHash |-> newHash, timestamp |-> timestamp, owner |-> owner]

\* keccak256(bytes(s)): a digest that tells any two strings apart
keccak256(s) == <<"keccak256", s>>

\* mutant: the data type is not checked
storeDataHashRevert_noTypeCheck(dataId, dataHash, dataType) ==
    IF ~(StrLen(dataId) > 0) THEN "Data ID cannot be empty"
    ELSE IF ~(StrLen(dataHash) > 0) THEN "Data hash cannot be empty"
    ELSE NoError

\* the require statements of storeDataHash, in order
storeDataHashRevert(dataId, dataHash, dataType) ==
    IF ~(StrLen(dataId) > 0) THEN "Data ID cannot be empty"
    ELSE IF ~(StrLen(dataHash) > 0) THEN "Data hash cannot be empty"
    ELSE IF ~(StrLen(dataType) > 0) THEN "Data type cannot be empty"
    ELSE NoError

\* mutant: the update leaves the stored data type as it is
updateDataHash_keepsType(dataId, dataHash, dataType, timestamp) ==
    [dataHashes EXCEPT ![dataId].dataHash = dataHash,
                       ![dataId].timestamp = timestamp]

\* mutant: the update leaves the stored hash as it is
updateDataHash_keepsHash(dataId, dataHash, dataType, timestamp) ==
    [dataHashes EXCEPT ![dataId].timestamp = timestamp,
                       ![dataId].dataType = dataType]

\* mutant: the update keeps the timestamp of the first store
updateDataHash_keepsTimestamp(dataId, dataHash, dataType, timestamp) ==
    [dataHashes EXCEPT ![dataId].dataHash = dataHash,
                       ![dataId].dataType = dataType]

\* the three field assignments of the update branch
updateDataHash(dataId, dataHash, dataType, timestamp) ==
    [dataHashes EXCEPT ![dataId].dataHash = dataHash,
                       ![dataId].timestamp = timestamp,
                       ![dataId].dataType = dataType]

\* mutant: the record is created without its owner
createDataHash_noOwner(dataId, dataHash, dataType, timestamp, sender) ==
    [dataHashes EXCEPT ![dataId] =
        [dataHash |-> dataHash, timestamp |-> timestamp, dataType |-> dataType,
         owner |-> NullAddress, exists |-> TRUE]]

\* dataHashes[dataId] = DataHashRecord({...})
createDataHash(dataId, dataHash, dataType, timestamp, sender) ==
    [dataHashes EXCEPT ![dataId] =
        [dataHash |-> dataHash, timestamp |-> timestamp, dataType |-> dataType,
         owner |-> sender, exists |-> TRUE]]

\* mutant: the data ID is put at the front of the owner's list
pushDataId_front(sender, dataId) ==
    [ownerDataIds EXCEPT ![sender] = <<dataId>> \o @]

\* ownerDataIds[msg.sender].push(dataId)
pushDataId(sender, dataId) ==
    [ownerDataIds EXCEPT ![sender] = Append(@, dataId)]

storeDataHash(sender, dataId, dataHash, dataType, timestamp) ==
    LET err == storeDataHashRevert(dataId, dataHash, dataType) IN
    /\ Idle
    /\ lastCall' = Receipt("storeDataHash",
                           <<sender, dataId, dataHash, dataType, timestamp>>, err)
    /\ IF err = NoError
       THEN /\ Len(hashEvents) < MaxHashes
            /\ IF dataHashes[dataId].exists
               THEN LET oldHash == dataHashes[dataId].dataHash IN
                    /\ dataHashes' = updateDataHash(dataId, dataHash, dataType, timestamp)
                    /\ hashEvents' = Append(hashEvents,
                           DataHashUpdated(dataId, oldHash, dataHash, timestamp, sender))
                    /\ UNCHANGED ownerDataIds
               ELSE /\ dataHashes' = createDataHash(dataId, dataHash, dataType,
                                                    timestamp, sender)
                    /\ ownerDataIds' = pushDataId(sender, dataId)
                    /\ hashEvents' = Append(hashEvents,
                           DataHashStored(dataId, dataHash, dataType, timestamp, sender))
       ELSE UNCHANGED hashVars
    /\ UNCHANGED <<now, consentVars, auditVars, authVars>>

\* mutant: the hashes are compared without looking at the exists flag
verifyRecord_noExistsCheck(record, dataHash) ==
    LET isValid == keccak256(record.dataHash) = keccak256(dataHash) IN
    Returned(<<isValid, record.dataHash, record.timestamp, record.dataType>>)

\* the body of verifyDataHash once the record is read:
\* (isValid, storedHash, timestamp, dataType)
verifyRecord(record, dataHash) ==
    IF ~record.exists
    THEN Returned(<<FALSE, "", 0, "">>)
    ELSE LET isValid == keccak256(record.dataHash) = keccak256(dataHash) IN
         Returned(<<isValid, record.dataHash, record.timestamp, record.dataType>>)

\* view
verifyDataHash(dataId, dataHash) == verifyRecord(dataHashes[dataId], dataHash)

\* mutant: the details of a data ID without a record cannot be read
recordDetails_requiresExists(record) ==
    IF ~record.exists
    THEN Reverted("Data hash does not exist")
    ELSE Returned(<<record.dataHash, record.timestamp, record.dataType, record.owner,
                    record.exists>>)

\* the return statement of getDataHashDetails:
\* (dataHash, timestamp, dataType, owner, exists)
recordDetails(record) ==
    Returned(<<record.dataHash, record.timestamp, record.dataType, record.owner,
               record.exists>>)

\* view
getDataHashDetails(dataId) == recordDetails(dataHashes[dataId])

\* view
getDataHashCount(owner) == Len(ownerDataIds[owner])

\* mutant: the list is read from its end
getDataId_fromEnd(owner, index) ==
    IF ~(index < Len(ownerDataIds[owner]))
    THEN Reverted("Index out of bounds")
    ELSE Returned(ownerDataIds[owner][Len(ownerDataIds[owner]) - index])

\* view
getDataId(owner, index) ==
    IF ~(index < Len(ownerDataIds[owner]))
    THEN Reverted("Index out of bounds")
    ELSE Returned(ownerDataIds[owner][index + 1])

\* view
dataHashExists(dataId) == dataHashes[dataId].exists

----------------------------------------------------------------------------
(* Specifications *)

Init ==
    /\ now = 0
    /\ consents = [patient \in Addresses |-> [provider \in Addresses |-> EmptyConsent]]
    /\ consentEvents = <<>>
    /\ accessLogs = <<>>
    /\ patientAccessLogs = [patient \in Addresses |-> <<>>]
    /\ auditEvents = <<>>
    /\ dataHashes = [dataId \in DataIds |-> EmptyRecord]
    /\ ownerDataIds = [owner \in Addresses |-> <<>>]
    /\ hashEvents = <<>>
    /\ lastCall = NoReceipt
    /\ user = NoUser
    /\ loading = TRUE
    /\ token = NoToken
    /\ location = "/login"

NextConsent ==
    \/ \E sender \in Senders, provider \in Addresses, terms \in ConsentTerms,
          startDate \in Timestamps, endDate \in Timestamps :
            grantConsent(sender, provider, terms[1], startDate, endDate, terms[2])
    \/ \E sender \in Senders, provider \in Addresses : revokeConsent(sender, provider)
    \/ Tick
    \/ Dismiss

SpecConsent == Init /\ [][NextConsent]_vars

\* ConsentContract with the clock running one block past MaxTime, so that a
\* consent stays expired over more than one block
NextExpiry ==
    \/ NextConsent
    \/ TickPast

SpecExpiry == Init /\ [][NextExpiry]_vars

NextAudit ==
    \/ \E patient \in Addresses, accessor \in Addresses, resourceId \in ResourceIds,
          accessType \in AccessTypes, timestamp \in Timestamps :
            logAccess(patient, accessor, resourceId, accessType, timestamp)
    \/ Dismiss

SpecAudit == Init /\ [][NextAudit]_vars

NextHash ==
    \/ \E sender \in Senders, dataId \in DataIds, dataHash \in DataHashValues,
          dataType \in DataTypes, timestamp \in Timestamps :
            storeDataHash(sender, dataId, dataHash, dataType, timestamp)
    \/ Dismiss

SpecHash == Init /\ [][NextHash]_vars

\* the transactions committed so far: each one emitted one event
Committed == Len(consentEvents) + Len(auditEvents) + Len(hashEvents)

\* the three contracts deployed on one chain: their transactions in any order;
\* here the callers of logAccess and storeDataHash pass the block time as the
\* timestamp argument (SpecAudit and SpecHash range over every timestamp)
NextLedger ==
    \/ \E sender \in Senders, provider \in Addresses, terms \in ConsentTerms,
          startDate \in Timestamps, endDate \in Timestamps :
            /\ grantConsent(sender, provider, terms[1], startDate, endDate, terms[2])
            /\ Committed' <= MaxLedgerOps
    \/ \E sender \in Senders, provider \in Addresses :
            /\ revokeConsent(sender, provider)
            /\ Committed' <= MaxLedgerOps
    \/ \E patient \in Addresses, accessor \in Addresses, resourceId \in ResourceIds,
          accessType \in AccessTypes :
            /\ logAccess(patient, accessor, resourceId, accessType, now)
            /\ Committed' <= MaxLedgerOps
    \/ \E sender \in Senders, dataId \in DataIds, dataHash \in DataHashValues,
          dataType \in DataTypes :
            /\ storeDataHash(sender, dataId, dataHash, dataType, now)
            /\ Committed' <= MaxLedgerOps
    \/ Tick
    \/ Dismiss

SpecLedger == Init /\ [][NextLedger]_vars

\* ConsentContract and AuditContract on one chain, long enough for a consent
\* to be granted and revoked before an access is logged; the callers of
\* logAccess pass the block time as the timestamp argument
NextAccess ==
    \/ \E sender \in Senders, provider \in Addresses, terms \in ConsentTerms,
          startDate \in Timestamps, endDate \in Timestamps :
            /\ grantConsent(sender, provider, terms[1], startDate, endDate, terms[2])
            /\ Committed' <= MaxAccessOps
    \/ \E sender \in Senders, provider \in Addresses :
            /\ revokeConsent(sender, provider)
            /\ Committed' <= MaxAccessOps
    \/ \E patient \in Addresses, accessor \in Addresses, resourceId \in ResourceIds,
          accessType \in AccessTypes :
            /\ logAccess(patient, accessor, resourceId, accessType, now)
            /\ Committed' <= MaxAccessOps
    \/ Tick
    \/ Dismiss

SpecAccess == Init /\ [][NextAccess]_vars

----------------------------------------------------------------------------
(* Properties of ConsentContract, checked under SpecConsent *)

Pairs == Addresses \X Addresses

\* positions in consentEvents of the events about (patient, provider)
ConsentEventsOf(patient, provider) ==
    {i \in 1 .. Len(consentEvents) :
        consentEvents[i].patient = patient /\ consentEvents[i].provider = provider}

\* position of the last event about the pair, 0 when there is none
LastConsentEvent(patient, provider) ==
    LET S == ConsentEventsOf(patient, provider) IN
    IF S = {} THEN 0 ELSE CHOOSE i \in S : \A j \in S : j <= i

\* the last committed transaction on the pair is a grant: granted, and not
\* since revoked or replaced
Granted(patient, provider) ==
    /\ LastConsentEvent(patient, provider) > 0
    /\ consentEvents[LastConsentEvent(patient, provider)].name = "ConsentGranted"

\* the last committed transaction on the pair is a revoke
Revoked(patient, provider) ==
    /\ LastConsentEvent(patient, provider) > 0
    /\ consentEvents[LastConsentEvent(patient, provider)].name = "ConsentRevoked"

LastGrant(patient, provider) == consentEvents[LastConsentEvent(patient, provider)]

\* C1: for the last successful grant of a pair, not since revoked or
\* replaced, checkConsent at time now returns valid = TRUE exactly when
\* startDate <= now <= endDate (both inclusive), and in and out of the window
\* it returns the accessLevel, startDate, endDate and purpose of that grant.
C1_CheckWindow ==
    \A pair \in Pairs :
        Granted(pair[1], pair[2]) =>
            LET g == LastGrant(pair[1], pair[2]) IN
            checkConsent(pair[1], pair[2]) =
                << g.startDate <= now /\ now <= g.endDate,
                   g.accessLevel, g.startDate, g.endDate, g.purpose >>

\* one grant is at the last instant of its window and reported valid, another
\* is past its window and reported invalid with its fields
C1_Witness ==
    \E pair \in Pairs, other \in Pairs :
        /\ Granted(pair[1], pair[2])
        /\ LastGrant(pair[1], pair[2]).endDate = now
        /\ checkConsent(pair[1], pair[2])[1] = TRUE
        /\ Granted(other[1], other[2])
        /\ LastGrant(other[1], other[2]).endDate < now
        /\ checkConsent(other[1], other[2])[1] = FALSE
        /\ checkConsent(other[1], other[2])[4] = LastGrant(other[1], other[2]).endDate

\* C2: a grantConsent call whose provider is address(0), or with
\* startDate >= endDate, or with endDate <= now (endDate = now included)
\* reverts, leaves every stored consent as it was (that of the same pair too)
\* and emits no event.
C2_RejectedGrant ==
    [][ ( /\ lastCall'.op = "grantConsent"
          /\ \/ lastCall'.args[2] = NullAddress
             \/ lastCall'.args[3] >= lastCall'.args[4]
             \/ lastCall'.args[4] <= now )
        => ( /\ ~lastCall'.ok
             /\ consents' = consents
             /\ consentEvents' = consentEvents ) ]_vars

\* a grant with endDate = now was rejected for a pair that has a stored consent
C2_Witness ==
    /\ lastCall.op = "grantConsent"
    /\ ~lastCall.ok
    /\ lastCall.err = "End date must be in the future"
    /\ lastCall.args[4] = now
    /\ consents[lastCall.args[1]][lastCall.args[2]].exists

\* C3 as stated: a grantConsent call with startDate < endDate < now reverts
\* and afterwards no consent is stored for the pair.
C3_NoRecordAfterPastGrant ==
    [][ ( /\ lastCall'.op = "grantConsent"
          /\ lastCall'.args[3] < lastCall'.args[4]
          /\ lastCall'.args[4] < now )
        => ( /\ ~lastCall'.ok
             /\ ~consents'[lastCall'.args[1]][lastCall'.args[2]].exists ) ]_vars

\* C3 amended: a grantConsent call with startDate < endDate < now reverts and
\* afterwards the pair's stored consent is what it was before the call: none
\* when there was none, the earlier grant when there was one.
C3_PastGrantRejected ==
    [][ ( /\ lastCall'.op = "grantConsent"
          /\ lastCall'.args[3] < lastCall'.args[4]
          /\ lastCall'.args[4] < now )
        => ( /\ ~lastCall'.ok
             /\ consents'[lastCall'.args[1]][lastCall'.args[2]]
                  = consents[lastCall'.args[1]][lastCall'.args[2]]
             /\ ( ~consents[lastCall'.args[1]][lastCall'.args[2]].exists
                    => ~consents'[lastCall'.args[1]][lastCall'.args[2]].exists ) ) ]_vars

\* a grant whose endDate is already past was rejected for a pair that has a
\* stored consent, which is still stored
C3_Witness ==
    /\ lastCall.op = "grantConsent"
    /\ ~lastCall.ok
    /\ lastCall.args[3] < lastCall.args[4]
    /\ lastCall.args[4] < now
    /\ consents[lastCall.args[1]][lastCall.args[2]].exists

\* positions of the ConsentGranted events about the pair
GrantsOf(patient, provider) ==
    {i \in ConsentEventsOf(patient, provider) : consentEvents[i].name = "ConsentGranted"}

\* C4: one consent at most is stored per (patient, provider) pair, however
\* many grants were made, and after two successful grants for a pair
\* checkConsent returns the accessLevel, startDate, endDate and purpose of the
\* later one: nothing of the earlier grant is kept.
C4_OverwriteNoMerge ==
    /\ Cardinality({pair \in Pairs : consents[pair[1]][pair[2]].exists})
         = Cardinality({pair \in Pairs : Granted(pair[1], pair[2])})
    /\ \A pair \in Pairs :
         (Cardinality(GrantsOf(pair[1], pair[2])) >= 2 /\ Granted(pair[1], pair[2])) =>
            LET g == LastGrant(pair[1], pair[2])
                c == checkConsent(pair[1], pair[2])
            IN  /\ consents[pair[1]][pair[2]] =
                     [exists |-> TRUE, accessLevel |-> g.accessLevel,
                      startDate |-> g.startDate, endDate |-> g.endDate,
                      purpose |-> g.purpose]
                /\ <<c[2], c[3], c[4], c[5]>> =
                     <<g.accessLevel, g.startDate, g.endDate, g.purpose>>

\* two grants for one pair that differ in every field; the later one is stored
C4_Witness ==
    \E pair \in Pairs :
        /\ Len(consentEvents) = 2
        /\ GrantsOf(pair[1], pair[2]) = {1, 2}
        /\ consentEvents[1].accessLevel # consentEvents[2].accessLevel
        /\ consentEvents[1].purpose # consentEvents[2].purpose
        /\ consentEvents[1].startDate # consentEvents[2].startDate
        /\ consentEvents[1].endDate # consentEvents[2].endDate
        /\ checkConsent(pair[1], pair[2])[5] = consentEvents[2].purpose

\* C5: revokeConsent reverts when no consent is stored for the pair or when
\* the provider is address(0); a reverted revoke changes no stored consent
\* and emits no event.
C5_RejectedRevoke ==
    [][ ( /\ lastCall'.op = "revokeConsent"
          /\ \/ lastCall'.args[2] = NullAddress
             \/ ~consents[lastCall'.args[1]][lastCall'.args[2]].exists )
        => ( /\ ~lastCall'.ok
             /\ consents' = consents
             /\ consentEvents' = consentEvents ) ]_vars

\* a second revoke of a pair right after a successful one was rejected
C5_Witness ==
    /\ lastCall.op = "revokeConsent"
    /\ ~lastCall.ok
    /\ lastCall.err = "Consent does not exist"
    /\ Len(consentEvents) = 2
    /\ consentEvents[2] = ConsentRevoked(lastCall.args[1], lastCall.args[2])

\* C6: a successful revokeConsent emits ConsentRevoked and deletes the pair's
\* consent; as long as the revoke is the last committed transaction on the
\* pair, checkConsent returns (false, "", 0, 0, "") at every time and
\* hasValidConsent returns false.
C6_RevokeDeletes ==
    /\ (lastCall.op = "revokeConsent" /\ lastCall.ok) =>
          /\ Len(consentEvents) > 0
          /\ consentEvents[Len(consentEvents)] =
                ConsentRevoked(lastCall.args[1], lastCall.args[2])
    /\ \A pair \in Pairs :
          Revoked(pair[1], pair[2]) =>
             /\ consents[pair[1]][pair[2]] = EmptyConsent
             /\ checkConsent(pair[1], pair[2]) = <<FALSE, "", 0, 0, "">>
             /\ ~hasValidConsent(pair[1], pair[2])

\* a grant was revoked inside its window, and time has moved on since
C6_Witness ==
    \E pair \in Pairs :
        /\ Len(consentEvents) = 2
        /\ consentEvents[1].name = "ConsentGranted"
        /\ consentEvents[1].startDate < now /\ now <= consentEvents[1].endDate
        /\ consentEvents[1].purpose # ""
        /\ consentEvents[2] = ConsentRevoked(pair[1], pair[2])
        /\ consentEvents[1].patient = pair[1] /\ consentEvents[1].provider = pair[2]
        /\ checkConsent(pair[1], pair[2])[1] = FALSE

\* a granted pair whose window is over still stores the grant, and
\* checkConsent reports it invalid with the grant's fields
ExpiredKept ==
    \A pair \in Pairs :
        (Granted(pair[1], pair[2]) /\ now > LastGrant(pair[1], pair[2]).endDate) =>
            LET g == LastGrant(pair[1], pair[2]) IN
            /\ consents[pair[1]][pair[2]] =
                 [exists |-> TRUE, accessLevel |-> g.accessLevel,
                  startDate |-> g.startDate, endDate |-> g.endDate,
                  purpose |-> g.purpose]
            /\ checkConsent(pair[1], pair[2]) =
                 <<FALSE, g.accessLevel, g.startDate, g.endDate, g.purpose>>

\* C7: expiry removes nothing: a step in which only time advances changes no
\* stored consent and emits nothing, an expired grant is still stored and
\* checkConsent returns valid = FALSE with its fields, and revokeConsent of an
\* expired grant succeeds, deletes it and emits ConsentRevoked.
C7_ExpiryKeepsRecord ==
    [][ /\ (now' # now => (consents' = consents /\ consentEvents' = consentEvents))
        /\ ExpiredKept'
        /\ ( /\ lastCall'.op = "revokeConsent"
             /\ consents[lastCall'.args[1]][lastCall'.args[2]].exists
             /\ now > consents[lastCall'.args[1]][lastCall'.args[2]].endDate )
           => ( /\ lastCall'.ok
                /\ consents'[lastCall'.args[1]][lastCall'.args[2]] = EmptyConsent
                /\ consentEvents' = Append(consentEvents,
                       ConsentRevoked(lastCall'.args[1], lastCall'.args[2])) ) ]_vars

\* a grant was revoked at a time after its endDate
C7_Witness ==
    /\ lastCall.op = "revokeConsent"
    /\ lastCall.ok
    /\ Len(consentEvents) = 2
    /\ consentEvents[1].name = "ConsentGranted"
    /\ consentEvents[1].endDate < now
    /\ consentEvents[2] = ConsentRevoked(consentEvents[1].patient, consentEvents[1].provider)

\* C8: in every state and at every time hasValidConsent(patient, provider) is
\* the first component of checkConsent(patient, provider).
C8_HasValidIsCheck ==
    \A pair \in Pairs :
        hasValidConsent(pair[1], pair[2]) = checkConsent(pair[1], pair[2])[1]

\* one stored consent is in its window, another has not started yet
C8_Witness ==
    \E pair \in Pairs, other \in Pairs :
        /\ hasValidConsent(pair[1], pair[2])
        /\ consents[other[1]][other[2]].exists
        /\ now < consents[other[1]][other[2]].startDate
        /\ ~hasValidConsent(other[1], other[2])

----------------------------------------------------------------------------
(* Properties of AuditContract, checked under SpecAudit *)

\* C9: the access log is append-only: no step shortens it, and every entry
\* stays at its position with its patient, accessor, resourceId, accessType
\* and timestamp, so the log before a step is a prefix of the log after it.
C9_AppendOnly ==
    [][ /\ Len(accessLogs') >= Len(accessLogs)
        /\ \A i \in 1 .. Len(accessLogs) : accessLogs'[i] = accessLogs[i] ]_vars

\* a log was appended after two others, the first of them different from it
C9_Witness ==
    /\ lastCall.op = "logAccess"
    /\ lastCall.ok
    /\ Len(accessLogs) = 3
    /\ accessLogs[1] # accessLogs[3]
    /\ accessLogs[1].timestamp > accessLogs[3].timestamp

\* getAccessLogCount(patient) after the step
getAccessLogCountAfter(patient) == Len(patientAccessLogs'[patient])

\* C10: a successful logAccess raises getAccessLogCount of its patient by
\* exactly 1 and leaves the count of every other patient as it was, and the
\* position given to the new entry is greater than every position given
\* before.
C10_CountAndPosition ==
    [][ (lastCall'.op = "logAccess" /\ lastCall'.ok) =>
          LET patient == lastCall'.args[1]
              position == patientAccessLogs'[patient][Len(patientAccessLogs'[patient])]
          IN  /\ getAccessLogCountAfter(patient) = getAccessLogCount(patient) + 1
              /\ \A other \in Addresses \ {patient} :
                    getAccessLogCountAfter(other) = getAccessLogCount(other)
              /\ \A other \in Addresses : \A i \in 1 .. Len(patientAccessLogs[other]) :
                    patientAccessLogs[other][i] < position
              /\ position = Len(accessLogs)
              /\ accessLogs'[position + 1].patient = patient ]_vars

\* the third log was made for a patient with one earlier log, after a log of
\* another patient
C10_Witness ==
    /\ lastCall.op = "logAccess"
    /\ lastCall.ok
    /\ Len(accessLogs) = 3
    /\ patientAccessLogs[lastCall.args[1]] = <<0, 2>>
    /\ lastCall.args[2] # lastCall.args[1]
    /\ \E other \in Addresses : patientAccessLogs[other] = <<1>>

\* the maxResults arguments tried: none, fewer than, as many as and more
\* than the logs there can be
MaxResultsArgs == 0 .. MaxLogs + 1

\* log indices 0 .. accessLogs.length - 1 in insertion order
LogIndices == [k \in 1 .. Len(accessLogs) |-> k - 1]

Min(a, b) == IF a <= b THEN a ELSE b

\* the first n elements of a sequence, all of it when it is shorter
FirstN(seq, n) == SubSeq(seq, 1, Min(n, Len(seq)))

\* the indices, in insertion order, of the logs of the patient whose
\* timestamp is in [startTime, endTime]
PatientMatches(patient, startTime, endTime) ==
    LET Match(k) == /\ accessLogs[k + 1].patient = patient
                    /\ startTime <= accessLogs[k + 1].timestamp
                    /\ accessLogs[k + 1].timestamp <= endTime
    IN  SelectSeq(LogIndices, Match)

\* C11: for every log state, every patient, every startTime <= endTime and
\* every maxResults (0 included) getAccessLogsInTimeRange returns the first
\* min(maxResults, m) of the m logs of the patient with a timestamp in
\* [startTime, endTime] (both inclusive), in insertion order.  The views read
\* storage only, and every reachable storage occurs with the receipt read.
C11_TimeRangeResult ==
    Idle =>
      \A patient \in Addresses, startTime \in Timestamps, endTime \in Timestamps,
         maxResults \in MaxResultsArgs :
            startTime <= endTime =>
                getAccessLogsInTimeRange(patient, startTime, endTime, maxResults) =
                    Returned(FirstN(PatientMatches(patient, startTime, endTime), maxResults))

\* a patient has three logs among which a log of another time lies between
\* two matches, the later match has the smaller timestamp, and the query is
\* cut at maxResults
C11_Witness ==
    \E patient \in Senders :
        /\ patientAccessLogs[patient] = <<0, 1, 2>>
        /\ accessLogs[1].timestamp = 2
        /\ accessLogs[2].timestamp = 0
        /\ accessLogs[3].timestamp = 1
        /\ getAccessLogsInTimeRange(patient, 1, 2, 3).value = <<0, 2>>
        /\ getAccessLogsInTimeRange(patient, 1, 2, 1).value = <<0>>
        /\ getAccessLogsInTimeRange(patient, 1, 2, 0).value = <<>>

\* the indices, in insertion order, of the logs made by the accessor
AccessorMatches(accessor) ==
    LET Match(k) == accessLogs[k + 1].accessor = accessor
    IN  SelectSeq(LogIndices, Match)

\* C12: for every log state, every accessor and every maxResults (0
\* included) getAccessLogsByAccessor does not revert and returns the first
\* min(maxResults, m) of the m positions of accessLogs whose accessor is the
\* argument, in increasing order.
C12_ByAccessorResult ==
    Idle =>
      \A accessor \in Addresses, maxResults \in MaxResultsArgs :
         LET r == getAccessLogsByAccessor(accessor, maxResults) IN
         /\ r.ok
         /\ r.value = FirstN(AccessorMatches(accessor), maxResults)
         /\ \A i, j \in 1 .. Len(r.value) : i < j => r.value[i] < r.value[j]

\* an accessor made the first and the third log, another one the second, and
\* the query is cut at maxResults
C12_Witness ==
    \E accessor \in Senders :
        /\ Len(accessLogs) = 3
        /\ accessLogs[1].accessor = accessor
        /\ accessLogs[2].accessor # accessor
        /\ accessLogs[3].accessor = accessor
        /\ getAccessLogsByAccessor(accessor, 3).value = <<0, 2>>
        /\ getAccessLogsByAccessor(accessor, 1).value = <<0>>

\* the logs of the patient, in insertion order
LogsOfPatient(patient) ==
    LET Mine(log) == log.patient = patient IN SelectSeq(accessLogs, Mine)

\* C15: getAccessLog(patient, index) reverts when index >= the patient's
\* getAccessLogCount (a patient with no logs included); otherwise it returns
\* the (index + 1)-th log ever made for the patient, whose patient field is
\* the argument.
C15_EntryForPatient ==
    Idle =>
      \A patient \in Addresses, index \in 0 .. MaxLogs :
         LET r == getAccessLog(patient, index)
             mine == LogsOfPatient(patient)
         IN  IF index >= getAccessLogCount(patient)
             THEN ~r.ok /\ r.err = "Index out of bounds"
             ELSE /\ r.ok
                  /\ index < Len(mine)
                  /\ r.value = << mine[index + 1].patient, mine[index + 1].accessor,
                                  mine[index + 1].resourceId, mine[index + 1].accessType,
                                  mine[index + 1].timestamp >>
                  /\ r.value[1] = patient

\* a patient's two logs follow a log of another patient: its index 1 is read,
\* its index 2 is out of bounds, and so is index 0 of an address with no log
C15_Witness ==
    \E patient \in Senders, other \in Addresses :
        /\ patientAccessLogs[patient] = <<1, 2>>
        /\ accessLogs[2].timestamp # accessLogs[3].timestamp
        /\ getAccessLog(patient, 1).ok
        /\ getAccessLog(patient, 1).value[5] = accessLogs[3].timestamp
        /\ ~getAccessLog(patient, 2).ok
        /\ patientAccessLogs[other] = <<>>
        /\ ~getAccessLog(other, 0).ok

\* C16: getAccessLogsInTimeRange reverts whenever startTime > endTime, for
\* every patient and maxResults, and returns (an empty array at times)
\* whenever startTime <= endTime, startTime = endTime and a patient with no
\* logs included.
C16_TimeRangeRevert ==
    Idle =>
      \A patient \in Addresses, startTime \in Timestamps, endTime \in Timestamps,
         maxResults \in MaxResultsArgs :
            LET r == getAccessLogsInTimeRange(patient, startTime, endTime, maxResults) IN
            IF startTime > endTime
            THEN ~r.ok /\ r.err = "Start time must be before end time"
            ELSE r.ok /\ Len(r.value) <= maxResults

\* with logs stored, a query with startTime = endTime returns a log, the
\* same query on an address with no log returns nothing, and a query with
\* startTime > endTime reverts
C16_Witness ==
    \E patient \in Senders, other \in Addresses :
        /\ getAccessLogsInTimeRange(patient, 1, 1, 2).ok
        /\ Len(getAccessLogsInTimeRange(patient, 1, 1, 2).value) = 1
        /\ patientAccessLogs[other] = <<>>
        /\ getAccessLogsInTimeRange(other, 1, 1, 2) = Returned(<<>>)
        /\ ~getAccessLogsInTimeRange(patient, 2, 1, 2).ok

\* C13: logAccess reverts when patient or accessor is address(0) or when
\* resourceId or accessType is empty; a reverted logAccess appends nothing,
\* changes no patient index, uses up no position and emits no event.
C13_RejectedLogAccess ==
    [][ ( /\ lastCall'.op = "logAccess"
          /\ \/ lastCall'.args[1] = NullAddress
             \/ lastCall'.args[2] = NullAddress
             \/ lastCall'.args[3] = ""
             \/ lastCall'.args[4] = "" )
        => ( /\ ~lastCall'.ok
             /\ accessLogs' = accessLogs
             /\ Len(accessLogs') = Len(accessLogs)
             /\ patientAccessLogs' = patientAccessLogs
             /\ auditEvents' = auditEvents ) ]_vars

\* a logAccess with an empty access type and all else valid was rejected
\* with logs already stored
C13_Witness ==
    /\ lastCall.op = "logAccess"
    /\ ~lastCall.ok
    /\ lastCall.err = "Access type cannot be empty"
    /\ Len(accessLogs) >= 1
    /\ Len(auditEvents) = Len(accessLogs)

\* the positions the contract has stored under an address: patientAccessLogs
\* is the only secondary index AuditContract declares
IndexedUnder(index, address) == {index[address][i] : i \in 1 .. Len(index[address])}

\* C14 as stated: a successful logAccess records the position of the new
\* entry in the secondary index under the entry's patient and in the
\* secondary index under the entry's accessor.
C14_PatientAndAccessorIndex ==
    [][ (lastCall'.op = "logAccess" /\ lastCall'.ok) =>
          /\ Len(accessLogs) \in IndexedUnder(patientAccessLogs', lastCall'.args[1])
          /\ Len(accessLogs) \in IndexedUnder(patientAccessLogs', lastCall'.args[2]) ]_vars

\* C14 amended: a successful logAccess appends the new entry at the next
\* position, leaving the entries before it in place, and records that
\* position at the end of the index of the entry's patient and nowhere else:
\* no index is kept per accessor, the accessor is stored in the entry alone.
C14_AppendAndPatientIndex ==
    [][ (lastCall'.op = "logAccess" /\ lastCall'.ok) =>
          /\ Len(accessLogs') = Len(accessLogs) + 1
          /\ SubSeq(accessLogs', 1, Len(accessLogs)) = accessLogs
          /\ accessLogs'[Len(accessLogs')].patient = lastCall'.args[1]
          /\ accessLogs'[Len(accessLogs')].accessor = lastCall'.args[2]
          /\ accessLogs'[Len(accessLogs')].resourceId = lastCall'.args[3]
          /\ accessLogs'[Len(accessLogs')].accessType = lastCall'.args[4]
          /\ patientAccessLogs'[lastCall'.args[1]] =
                Append(patientAccessLogs[lastCall'.args[1]], Len(accessLogs))
          /\ \A other \in Addresses \ {lastCall'.args[1]} :
                patientAccessLogs'[other] = patientAccessLogs[other] ]_vars

\* a log was made by an accessor that is not its patient and that has logs of
\* its own: the new position is under the patient and not under the accessor
C14_Witness ==
    /\ lastCall.op = "logAccess"
    /\ lastCall.ok
    /\ lastCall.args[1] # lastCall.args[2]
    /\ Len(accessLogs) - 1 \in IndexedUnder(patientAccessLogs, lastCall.args[1])
    /\ IndexedUnder(patientAccessLogs, lastCall.args[2]) # {}
    /\ Len(accessLogs) - 1 \notin IndexedUnder(patientAccessLogs, lastCall.args[2])

\* C17: logAccess rejects no call for being a repeat: a call with a patient
\* and an accessor other than address(0) and a resourceId and an accessType
\* that are not empty succeeds whatever the log holds, and when the log
\* already holds the same entry the new one is stored at another position,
\* both positions being in the patient's index.
C17_RepeatsLogged ==
    [][ ( /\ lastCall'.op = "logAccess"
          /\ lastCall'.args[1] # NullAddress
          /\ lastCall'.args[2] # NullAddress
          /\ lastCall'.args[3] # ""
          /\ lastCall'.args[4] # "" )
        => ( /\ lastCall'.ok
             /\ Len(accessLogs') = Len(accessLogs) + 1
             /\ \A k \in 1 .. Len(accessLogs) :
                   accessLogs[k] = accessLogs'[Len(accessLogs')] =>
                      /\ accessLogs'[k] = accessLogs'[Len(accessLogs')]
                      /\ {k - 1, Len(accessLogs)} \subseteq
                            IndexedUnder(patientAccessLogs', lastCall'.args[1]) ) ]_vars

\* the log just made is equal, timestamp included, to the one before it, and
\* both are in the patient's index
C17_Witness ==
    /\ lastCall.op = "logAccess"
    /\ lastCall.ok
    /\ Len(accessLogs) = 3
    /\ accessLogs[2] = accessLogs[3]
    /\ {1, 2} \subseteq IndexedUnder(patientAccessLogs, lastCall.args[1])
    /\ getAccessLogCount(lastCall.args[1]) >= 2

----------------------------------------------------------------------------
(* DataHashContract: claims *)

\* the event the last committed transaction of DataHashContract emitted
LastHashEvent(events) == events[Len(events)]

\* C18: when storeDataHash succeeds on a dataId whose record exists with hash
\* d1 and the call passes another hash d2, the owner of the record is what it
\* was, the stored hash is d2, verifyDataHash(dataId, d1) gives isValid =
\* false and verifyDataHash(dataId, d2) gives isValid = true, and the one
\* event emitted is DataHashUpdated with oldHash = d1 and newHash = d2.
C18_UpdateReplacesHash ==
    [][ ( /\ lastCall'.op = "storeDataHash"
          /\ lastCall'.ok
          /\ dataHashes[lastCall'.args[2]].exists
          /\ dataHashes[lastCall'.args[2]].dataHash # lastCall'.args[3] )
        => LET dataId == lastCall'.args[2]
               d1 == dataHashes[dataId].dataHash
               d2 == lastCall'.args[3]
               event == LastHashEvent(hashEvents')
           IN /\ dataHashes'[dataId].owner = dataHashes[dataId].owner
              /\ dataHashes'[dataId].dataHash = d2
              /\ verifyRecord(dataHashes'[dataId], d1).value[1] = FALSE
              /\ verifyRecord(dataHashes'[dataId], d1).value[2] = d2
              /\ verifyRecord(dataHashes'[dataId], d2).value[1] = TRUE
              /\ Len(hashEvents') = Len(hashEvents) + 1
              /\ event.name = "DataHashUpdated"
              /\ event.dataId = dataId
              /\ event.oldHash = d1
              /\ event.newHash = d2 ]_vars

\* a record was created with one hash and then updated, by another account,
\* with another hash
C18_Witness ==
    /\ lastCall.op = "storeDataHash"
    /\ lastCall.ok
    /\ Len(hashEvents) = 2
    /\ hashEvents[1].name = "DataHashStored"
    /\ hashEvents[2].name = "DataHashUpdated"
    /\ hashEvents[1].dataId = hashEvents[2].dataId
    /\ hashEvents[1].dataHash = hashEvents[2].oldHash
    /\ hashEvents[2].oldHash # hashEvents[2].newHash
    /\ hashEvents[1].owner # hashEvents[2].owner
    /\ verifyDataHash(lastCall.args[2], hashEvents[2].newHash).value[1]
    /\ ~verifyDataHash(lastCall.args[2], hashEvents[1].dataHash).value[1]

\* C19 as stated: when storeDataHash succeeds on a dataId whose record
\* exists, the owner and the timestamp of the record, as getDataHashDetails
\* and verifyDataHash return them, are after the call what they were before.
C19_UpdateKeepsTimestamp ==
    [][ ( /\ lastCall'.op = "storeDataHash"
          /\ lastCall'.ok
          /\ dataHashes[lastCall'.args[2]].exists )
        => LET before == dataHashes[lastCall'.args[2]]
               after == dataHashes'[lastCall'.args[2]]
           IN /\ recordDetails(after).value[4] = recordDetails(before).value[4]
              /\ recordDetails(after).value[2] = recordDetails(before).value[2]
              /\ verifyRecord(after, after.dataHash).value[3] =
                    verifyRecord(before, before.dataHash).value[3] ]_vars

\* C19 amended: when storeDataHash succeeds on a dataId whose record exists,
\* the hash, the data type and the timestamp of the record become those of
\* the call, getDataHashDetails and verifyDataHash return the timestamp of
\* the call, the owner and the exists flag of the record are what they were,
\* and the records of the other data IDs and the owners' lists are unchanged.
C19_UpdateReplacesTimestamp ==
    [][ ( /\ lastCall'.op = "storeDataHash"
          /\ lastCall'.ok
          /\ dataHashes[lastCall'.args[2]].exists )
        => LET dataId == lastCall'.args[2]
               before == dataHashes[dataId]
               after == dataHashes'[dataId]
           IN /\ after.dataHash = lastCall'.args[3]
              /\ after.dataType = lastCall'.args[4]
              /\ after.timestamp = lastCall'.args[5]
              /\ recordDetails(after).value[2] = lastCall'.args[5]
              /\ verifyRecord(after, after.dataHash).value[3] = lastCall'.args[5]
              /\ after.owner = before.owner
              /\ recordDetails(after).value[4] = recordDetails(before).value[4]
              /\ after.exists
              /\ \A other \in DataIds \ {dataId} : dataHashes'[other] = dataHashes[other]
              /\ ownerDataIds' = ownerDataIds ]_vars

\* a record stored with one timestamp and data type was updated with another
\* timestamp and data type, and now carries the timestamp of the update
C19_Witness ==
    /\ lastCall.op = "storeDataHash"
    /\ lastCall.ok
    /\ Len(hashEvents) = 2
    /\ hashEvents[1].name = "DataHashStored"
    /\ hashEvents[2].name = "DataHashUpdated"
    /\ hashEvents[1].dataId = hashEvents[2].dataId
    /\ hashEvents[1].timestamp # hashEvents[2].timestamp
    /\ hashEvents[1].dataType # dataHashes[lastCall.args[2]].dataType
    /\ getDataHashDetails(lastCall.args[2]).value[2] = hashEvents[2].timestamp
    /\ getDataHashDetails(lastCall.args[2]).value[4] = hashEvents[1].owner

\* C20: when storeDataHash succeeds on a dataId that has no record, the
\* record of that dataId has the hash, data type and timestamp of the call,
\* owner = msg.sender and exists = true, the dataId is appended to the end of
\* the caller's list of data IDs, the other lists and records are unchanged,
\* and the one event emitted is DataHashStored, not DataHashUpdated.
C20_CreateRecord ==
    [][ ( /\ lastCall'.op = "storeDataHash"
          /\ lastCall'.ok
          /\ ~dataHashes[lastCall'.args[2]].exists )
        => LET sender == lastCall'.args[1]
               dataId == lastCall'.args[2]
           IN /\ dataHashes'[dataId] =
                    [dataHash |-> lastCall'.args[3], timestamp |-> lastCall'.args[5],
                     dataType |-> lastCall'.args[4], owner |-> sender, exists |-> TRUE]
              /\ \A other \in DataIds \ {dataId} : dataHashes'[other] = dataHashes[other]
              /\ ownerDataIds'[sender] = Append(ownerDataIds[sender], dataId)
              /\ \A other \in Addresses \ {sender} :
                    ownerDataIds'[other] = ownerDataIds[other]
              /\ Len(hashEvents') = Len(hashEvents) + 1
              /\ LastHashEvent(hashEvents') =
                    DataHashStored(dataId, lastCall'.args[3], lastCall'.args[4],
                                   lastCall'.args[5], sender) ]_vars

\* an account that owns a record created a second one: its list holds the
\* first data ID and then the new one
C20_Witness ==
    /\ lastCall.op = "storeDataHash"
    /\ lastCall.ok
    /\ LastHashEvent(hashEvents).name = "DataHashStored"
    /\ getDataHashCount(lastCall.args[1]) = 2
    /\ getDataId(lastCall.args[1], 1).value = lastCall.args[2]
    /\ getDataId(lastCall.args[1], 0).value # lastCall.args[2]
    /\ dataHashExists(lastCall.args[2])
    /\ dataHashes[lastCall.args[2]].owner = lastCall.args[1]

\* the positions in hashEvents of the events about a data ID
HashEventsOf(dataId) == {k \in 1 .. Len(hashEvents) : hashEvents[k].dataId = dataId}

\* a record was stored for the data ID: DataHashContract never deletes one
Stored(dataId) == HashEventsOf(dataId) # {}

\* the hash the last committed store of the data ID carried
CurrentHash(dataId) ==
    LET last == hashEvents[CHOOSE k \in HashEventsOf(dataId) :
                              \A j \in HashEventsOf(dataId) : j <= k]
    IN IF last.name = "DataHashStored" THEN last.dataHash ELSE last.newHash

\* C21: in every state, for every dataId and candidate hash, verifyDataHash
\* does not revert and gives isValid = true exactly when a record was stored
\* for the dataId and the candidate is the hash stored last; for a dataId
\* without a record it returns (false, "", 0, "").
C21_VerifyExact ==
    Idle => \A dataId \in DataIds, candidate \in DataHashValues :
        LET result == verifyDataHash(dataId, candidate) IN
        /\ result.ok
        /\ result.value[1] = (Stored(dataId) /\ candidate = CurrentHash(dataId))
        /\ Stored(dataId) => result.value[2] = CurrentHash(dataId)
        /\ ~Stored(dataId) => result.value = <<FALSE, "", 0, "">>

\* one data ID has a record whose hash was replaced, another has none: the
\* new hash verifies, the old one does not, and the empty candidate does not
\* verify against the empty slot of the data ID without a record
C21_Witness ==
    /\ Idle
    /\ Len(hashEvents) = 2
    /\ hashEvents[2].name = "DataHashUpdated"
    /\ hashEvents[2].dataId = "rec-1"
    /\ hashEvents[2].oldHash # hashEvents[2].newHash
    /\ verifyDataHash("rec-1", hashEvents[2].newHash).value[1]
    /\ ~verifyDataHash("rec-1", hashEvents[2].oldHash).value[1]
    /\ ~dataHashExists("rec-2")
    /\ verifyDataHash("rec-2", "") = Returned(<<FALSE, "", 0, "">>)

\* C22: storeDataHash reverts when dataId, dataHash or dataType is empty; a
\* reverted storeDataHash changes no record, the record of the same dataId
\* included, changes no owner's list of data IDs and emits no event.
C22_RejectedStore ==
    [][ ( /\ lastCall'.op = "storeDataHash"
          /\ \/ lastCall'.args[2] = ""
             \/ lastCall'.args[3] = ""
             \/ lastCall'.args[4] = "" )
        => ( /\ ~lastCall'.ok
             /\ lastCall'.err \in {"Data ID cannot be empty", "Data hash cannot be empty",
                                   "Data type cannot be empty"}
             /\ dataHashes' = dataHashes
             /\ ownerDataIds' = ownerDataIds
             /\ hashEvents' = hashEvents ) ]_vars

\* a store with an empty data type was rejected for a data ID that has a
\* record, and the record is the one stored before
C22_Witness ==
    /\ lastCall.op = "storeDataHash"
    /\ ~lastCall.ok
    /\ lastCall.err = "Data type cannot be empty"
    /\ dataHashExists(lastCall.args[2])
    /\ dataHashes[lastCall.args[2]].dataHash # lastCall.args[3]
    /\ dataHashes[lastCall.args[2]].dataHash = CurrentHash(lastCall.args[2])

\* the data IDs whose DataHashStored event names the owner, in the order
\* of the events: the first successful store of each data ID
RECURSIVE RegisteredBy(_, _)
RegisteredBy(owner, n) ==
    IF n = 0 THEN <<>>
    ELSE IF hashEvents[n].name = "DataHashStored" /\ hashEvents[n].owner = owner
         THEN Append(RegisteredBy(owner, n - 1), hashEvents[n].dataId)
         ELSE RegisteredBy(owner, n - 1)

\* C23: for every owner, getDataHashCount is the number of data IDs first
\* stored by that owner, getDataId(owner, i) with i below the count returns
\* the (i+1)-th of them in the order they were stored, and getDataId reverts
\* for every index from the count on; as only first stores are counted, an
\* update changes neither the count nor the order.
C23_OwnerIds ==
    Idle => \A owner \in Addresses :
        LET registered == RegisteredBy(owner, Len(hashEvents)) IN
        /\ getDataHashCount(owner) = Len(registered)
        /\ \A index \in 0 .. MaxHashes + 1 :
              IF index < getDataHashCount(owner)
              THEN getDataId(owner, index) = Returned(registered[index + 1])
              ELSE getDataId(owner, index) = Reverted("Index out of bounds")

\* an account updated a record another account had stored: the data ID is
\* still the one entry of the first account and the updating account has none
C23_Witness ==
    /\ Idle
    /\ Len(hashEvents) = 2
    /\ hashEvents[1].name = "DataHashStored"
    /\ hashEvents[2].name = "DataHashUpdated"
    /\ hashEvents[1].owner # hashEvents[2].owner
    /\ getDataHashCount(hashEvents[1].owner) = 1
    /\ getDataId(hashEvents[1].owner, 0).value = hashEvents[2].dataId
    /\ getDataHashCount(hashEvents[2].owner) = 0
    /\ ~getDataId(hashEvents[2].owner, 0).ok

----------------------------------------------------------------------------
(* The three contracts together, checked under SpecLedger *)

\* C24: in every state, for every pair without a stored consent and every
\* data ID without a record, the views do not revert and give the empty
\* result: checkConsent (false, "", 0, 0, ""), hasValidConsent false,
\* verifyDataHash (false, "", 0, "") for every candidate, getDataHashDetails
\* ("", 0, "", address(0), false) and dataHashExists false.
C24_AbsentIsNegative ==
    Idle =>
      /\ \A pair \in Pairs :
            ~Granted(pair[1], pair[2]) =>
               /\ checkConsent(pair[1], pair[2]) = <<FALSE, "", 0, 0, "">>
               /\ hasValidConsent(pair[1], pair[2]) = FALSE
      /\ \A dataId \in DataIds :
            ~Stored(dataId) =>
               /\ \A candidate \in DataHashValues :
                     verifyDataHash(dataId, candidate) = Returned(<<FALSE, "", 0, "">>)
               /\ getDataHashDetails(dataId) = Returned(<<"", 0, "", NullAddress, FALSE>>)
               /\ dataHashExists(dataId) = FALSE

\* a consent and a record are stored, in its window and verifying, next to a
\* pair and a data ID that have none
C24_Witness ==
    /\ Idle
    /\ \E pair \in Pairs : hasValidConsent(pair[1], pair[2])
    /\ \E pair \in Pairs : ~Granted(pair[1], pair[2]) /\ ~checkConsent(pair[1], pair[2])[1]
    /\ dataHashExists("rec-1")
    /\ ~Stored("rec-2")
    /\ ~getDataHashDetails("rec-2").value[5]

\* the functions that write storage
Mutating == {"grantConsent", "revokeConsent", "logAccess", "storeDataHash"}

\* what the contracts store, without the events
Storage == <<consents, accessLogs, patientAccessLogs, dataHashes, ownerDataIds>>

\* C25: every call of grantConsent, revokeConsent, logAccess and
\* storeDataHash is all or nothing. A call that succeeds emits exactly one
\* event, of its contract, and the storage then holds the whole change that
\* event describes; a call that reverts changes no storage and emits no
\* event; and storage or events change in no other step, so the events
\* emitted by a contract are as many as its committed transactions.
C25_AllOrNothing ==
    [][ /\ (lastCall'.op \in Mutating /\ ~lastCall'.ok) =>
              /\ Storage' = Storage
              /\ consentEvents' = consentEvents
              /\ auditEvents' = auditEvents
              /\ hashEvents' = hashEvents
        /\ (Storage' # Storage \/ Committed' # Committed) =>
              /\ lastCall'.op \in Mutating
              /\ lastCall'.ok
              /\ Committed' = Committed + 1
        /\ (lastCall'.op = "grantConsent" /\ lastCall'.ok) =>
              LET event == consentEvents'[Len(consentEvents')] IN
              /\ consentEvents' = Append(consentEvents, event)
              /\ event.name = "ConsentGranted"
              /\ event.patient = lastCall'.args[1]
              /\ event.provider = lastCall'.args[2]
              /\ consents'[event.patient][event.provider] =
                    [exists |-> TRUE, accessLevel |-> event.accessLevel,
                     startDate |-> event.startDate, endDate |-> event.endDate,
                     purpose |-> event.purpose]
        /\ (lastCall'.op = "revokeConsent" /\ lastCall'.ok) =>
              /\ consentEvents' = Append(consentEvents,
                    ConsentRevoked(lastCall'.args[1], lastCall'.args[2]))
              /\ consents'[lastCall'.args[1]][lastCall'.args[2]] = EmptyConsent
        /\ (lastCall'.op = "logAccess" /\ lastCall'.ok) =>
              LET event == auditEvents'[Len(auditEvents')]
                  log == accessLogs'[Len(accessLogs')]
              IN /\ auditEvents' = Append(auditEvents, event)
                 /\ accessLogs' = Append(accessLogs, log)
                 /\ event = AccessLogged(log.patient, log.accessor, log.resourceId,
                                         log.accessType, log.timestamp)
                 /\ log.patient = lastCall'.args[1]
                 /\ Len(accessLogs) \in IndexedUnder(patientAccessLogs', log.patient)
        /\ (lastCall'.op = "storeDataHash" /\ lastCall'.ok) =>
              LET event == hashEvents'[Len(hashEvents')]
                  record == dataHashes'[lastCall'.args[2]]
              IN /\ hashEvents' = Append(hashEvents, event)
                 /\ event.dataId = lastCall'.args[2]
                 /\ event.name \in {"DataHashStored", "DataHashUpdated"}
                 /\ record.exists
                 /\ record.timestamp = event.timestamp
                 /\ record.dataType = lastCall'.args[4]
                 /\ record.dataHash =
                       IF event.name = "DataHashStored" THEN event.dataHash
                       ELSE event.newHash
                 /\ event.name = "DataHashStored" =>
                       lastCall'.args[2] \in
                          {ownerDataIds'[event.owner][i] :
                              i \in 1 .. Len(ownerDataIds'[event.owner])}
        /\ Len(accessLogs') = Len(auditEvents')
      ]_vars

\* a logAccess reverted after a consent was granted and a record stored:
\* two events for two committed transactions, and the log is empty
C25_Witness ==
    /\ lastCall.op = "logAccess"
    /\ ~lastCall.ok
    /\ Len(consentEvents) = 1
    /\ Len(hashEvents) = 1
    /\ Len(auditEvents) = 0
    /\ accessLogs = <<>>
    /\ Committed = 2

\* C29: the stored consent of a pair changes only in a successful
\* grantConsent of that pair, after which a consent is stored (NoGrant to
\* Granted, or Granted to Granted), and in a successful revokeConsent of that
\* pair, before which a consent was stored and after which none is (Granted
\* to NoGrant); no other call, no reverted call and no passage of time
\* changes it, and each successful grant or revoke makes its transition.
C29_ConsentTransitions ==
    [][ /\ \A pair \in Pairs :
             consents'[pair[1]][pair[2]] # consents[pair[1]][pair[2]] =>
                /\ lastCall'.ok
                /\ lastCall'.op \in {"grantConsent", "revokeConsent"}
                /\ lastCall'.args[1] = pair[1]
                /\ lastCall'.args[2] = pair[2]
        /\ (lastCall'.op = "grantConsent" /\ lastCall'.ok) =>
              consents'[lastCall'.args[1]][lastCall'.args[2]].exists
        /\ (lastCall'.op = "revokeConsent" /\ lastCall'.ok) =>
              /\ consents[lastCall'.args[1]][lastCall'.args[2]].exists
              /\ consents'[lastCall'.args[1]][lastCall'.args[2]] = EmptyConsent
        /\ now' # now => consents' = consents
      ]_vars

\* a pair went from no grant to granted and, after time had passed, back to
\* no grant by a revoke
C29_Witness ==
    /\ lastCall.op = "revokeConsent"
    /\ lastCall.ok
    /\ now > 0
    /\ Len(consentEvents) = 2
    /\ consentEvents[1].name = "ConsentGranted"
    /\ consentEvents[1].patient = lastCall.args[1]
    /\ consentEvents[1].provider = lastCall.args[2]
    /\ ~consents[lastCall.args[1]][lastCall.args[2]].exists

\* C30: each call writes the storage of its own contract only: grantConsent
\* and revokeConsent leave the access log, its index, the hash records and
\* the owners' lists unchanged; logAccess leaves the consents and the hash
\* records unchanged; storeDataHash leaves the consents and the access log
\* unchanged; and no call emits an event of another contract.
C30_OneContractPerCall ==
    [][ /\ lastCall'.op \in {"grantConsent", "revokeConsent"} =>
              /\ accessLogs' = accessLogs
              /\ patientAccessLogs' = patientAccessLogs
              /\ auditEvents' = auditEvents
              /\ dataHashes' = dataHashes
              /\ ownerDataIds' = ownerDataIds
              /\ hashEvents' = hashEvents
        /\ lastCall'.op = "logAccess" =>
              /\ consents' = consents
              /\ consentEvents' = consentEvents
              /\ dataHashes' = dataHashes
              /\ ownerDataIds' = ownerDataIds
              /\ hashEvents' = hashEvents
        /\ lastCall'.op = "storeDataHash" =>
              /\ consents' = consents
              /\ consentEvents' = consentEvents
              /\ accessLogs' = accessLogs
              /\ patientAccessLogs' = patientAccessLogs
              /\ auditEvents' = auditEvents
      ]_vars

\* a record was stored while an access log entry was held: the log and its
\* index are there after the store
C30_Witness ==
    /\ lastCall.op = "storeDataHash"
    /\ lastCall.ok
    /\ Len(accessLogs) = 1
    /\ getAccessLogCount(accessLogs[1].patient) = 1
    /\ Len(hashEvents) = 1
    /\ dataHashExists(lastCall.args[2])

\* the last event about a data ID
LastEventOf(dataId) ==
    hashEvents[CHOOSE k \in HashEventsOf(dataId) : \A j \in HashEventsOf(dataId) : j <= k]

\* C27: what the views return in any state a call can read, the states
\* between transactions, is the result of whole transactions only. Every
\* entry of the access log is returned by getAccessLog at one index below its
\* patient's getAccessLogCount, with the fields of its AccessLogged event;
\* getDataHashDetails and verifyDataHash return for every stored data ID the
\* hash and timestamp of its last event together, and right after a
\* successful storeDataHash the hash, the data type and the timestamp of
\* that one call together.
C27_ReadsSeeWholeTransactions ==
    /\ Len(accessLogs) = Len(auditEvents)
    /\ \A k \in 1 .. Len(accessLogs) :
          LET event == auditEvents[k] IN
          \E index \in 0 .. getAccessLogCount(event.patient) - 1 :
             /\ patientLogIndex(event.patient, index) = k - 1
             /\ getAccessLog(event.patient, index) =
                   Returned(<<event.patient, event.accessor, event.resourceId,
                              event.accessType, event.timestamp>>)
    /\ \A dataId \in DataIds :
          LET details == getDataHashDetails(dataId).value IN
          /\ details[5] = Stored(dataId)
          /\ dataHashExists(dataId) = Stored(dataId)
          /\ Stored(dataId) =>
                /\ details[1] = CurrentHash(dataId)
                /\ details[2] = LastEventOf(dataId).timestamp
                /\ details[3] # ""
                /\ verifyDataHash(dataId, details[1]) =
                      Returned(<<TRUE, details[1], details[2], details[3]>>)
    /\ (lastCall.op = "storeDataHash" /\ lastCall.ok) =>
          /\ getDataHashDetails(lastCall.args[2]).value[1] = lastCall.args[3]
          /\ getDataHashDetails(lastCall.args[2]).value[3] = lastCall.args[4]
          /\ getDataHashDetails(lastCall.args[2]).value[2] = lastCall.args[5]
          /\ getDataHashDetails(lastCall.args[2]).value[5]

\* a record was updated with another hash, another data type and a later
\* timestamp: the three are read together
C27_Witness ==
    /\ lastCall.op = "storeDataHash"
    /\ lastCall.ok
    /\ Len(hashEvents) = 2
    /\ hashEvents[1].name = "DataHashStored"
    /\ hashEvents[2].name = "DataHashUpdated"
    /\ hashEvents[1].dataHash # lastCall.args[3]
    /\ hashEvents[1].dataType # lastCall.args[4]
    /\ hashEvents[1].timestamp # lastCall.args[5]
    /\ getDataHashDetails(lastCall.args[2]) =
          Returned(<<lastCall.args[3], lastCall.args[5], lastCall.args[4],
                     hashEvents[1].owner, TRUE>>)

----------------------------------------------------------------------------
(* AuditContract: the scans and the index *)

\* one forward pass over the patient's index that collects the matches and
\* stops once maxResults of them are collected
RECURSIVE SinglePassTimeRange(_, _, _, _, _, _)
SinglePassTimeRange(patientLogs, startTime, endTime, maxResults, i, collected) ==
    IF i > Len(patientLogs) \/ Len(collected) >= maxResults THEN collected
    ELSE LET log == accessLogs[patientLogs[i] + 1] IN
         SinglePassTimeRange(patientLogs, startTime, endTime, maxResults, i + 1,
             IF startTime <= log.timestamp /\ log.timestamp <= endTime
             THEN Append(collected, patientLogs[i]) ELSE collected)

\* one forward pass over the log that collects the positions of the accessor
\* and stops once maxResults of them are collected
RECURSIVE SinglePassAccessor(_, _, _, _)
SinglePassAccessor(accessor, maxResults, i, collected) ==
    IF i > Len(accessLogs) \/ Len(collected) >= maxResults THEN collected
    ELSE SinglePassAccessor(accessor, maxResults, i + 1,
             IF accessLogs[i].accessor = accessor
             THEN Append(collected, i - 1) ELSE collected)

\* C32: for every log state and every argument, the two passes of
\* getAccessLogsInTimeRange and of getAccessLogsByAccessor return the
\* sequence one forward pass that stops at maxResults matches collects, and
\* the array returned has no unfilled slot: each of its slots holds the
\* position of a matching entry, and the positions increase strictly.
C32_TwoPassIsSinglePass ==
    Idle =>
      /\ \A patient \in Addresses, startTime \in Timestamps, endTime \in Timestamps,
            maxResults \in MaxResultsArgs :
               startTime <= endTime =>
                  LET result == getAccessLogsInTimeRange(patient, startTime, endTime,
                                                         maxResults).value
                  IN /\ result = SinglePassTimeRange(patientAccessLogs[patient],
                                     startTime, endTime, maxResults, 1, <<>>)
                     /\ \A k \in 1 .. Len(result) :
                           /\ accessLogs[result[k] + 1].patient = patient
                           /\ startTime <= accessLogs[result[k] + 1].timestamp
                           /\ accessLogs[result[k] + 1].timestamp <= endTime
                           /\ k > 1 => result[k - 1] < result[k]
      /\ \A accessor \in Addresses, maxResults \in MaxResultsArgs :
            LET result == getAccessLogsByAccessor(accessor, maxResults).value IN
            /\ result = SinglePassAccessor(accessor, maxResults, 1, <<>>)
            /\ \A k \in 1 .. Len(result) :
                  /\ accessLogs[result[k] + 1].accessor = accessor
                  /\ k > 1 => result[k - 1] < result[k]

\* three logs of one patient and one accessor, the second at another time
\* than the first and the third: a scan cut at two results skips the second
\* log and both slots of its array are filled
C32_Witness ==
    /\ Idle
    /\ Len(accessLogs) = 3
    /\ accessLogs[1].patient = 1 /\ accessLogs[2].patient = 1 /\ accessLogs[3].patient = 1
    /\ accessLogs[1].accessor = 2 /\ accessLogs[2].accessor = 1 /\ accessLogs[3].accessor = 2
    /\ accessLogs[1].timestamp = 1 /\ accessLogs[2].timestamp = 0 /\ accessLogs[3].timestamp = 2
    /\ getAccessLogsInTimeRange(1, 1, 2, 2).value = <<0, 2>>
    /\ getAccessLogsByAccessor(2, 2).value = <<0, 2>>
    /\ getAccessLogsInTimeRange(1, 1, 2, 1).value = <<0>>

RECURSIVE SumOfCounts(_)
SumOfCounts(patients) ==
    IF patients = {} THEN 0
    ELSE LET patient == CHOOSE a \in patients : TRUE IN
         getAccessLogCount(patient) + SumOfCounts(patients \ {patient})

\* the places <<patient, i>> of the indices that hold a log position
PlacesOf(position) ==
    {place \in Addresses \X (1 .. Len(accessLogs)) :
        /\ place[2] <= Len(patientAccessLogs[place[1]])
        /\ patientAccessLogs[place[1]][place[2]] = position}

\* C34: in every state each patient's index increases strictly, each
\* position in it is a position of the log that holds an entry of that
\* patient, every position 0 .. n-1 of the log is in exactly one place of
\* exactly one patient's index, and the getAccessLogCount of all patients
\* add up to the length of the log.
C34_IndexPartitionsLog ==
    /\ \A patient \in Addresses :
          \A i \in 1 .. Len(patientAccessLogs[patient]) :
             /\ patientAccessLogs[patient][i] \in 0 .. Len(accessLogs) - 1
             /\ accessLogs[patientAccessLogs[patient][i] + 1].patient = patient
             /\ i > 1 => patientAccessLogs[patient][i - 1] < patientAccessLogs[patient][i]
    /\ \A position \in 0 .. Len(accessLogs) - 1 :
          /\ Cardinality(PlacesOf(position)) = 1
          /\ \E place \in PlacesOf(position) : place[1] = accessLogs[position + 1].patient
    /\ SumOfCounts(Addresses) = Len(accessLogs)

\* the logs of two patients alternate, the accessor of one being the other
\* patient: the indices hold <<0, 2>> and <<1>>
C34_Witness ==
    /\ Len(accessLogs) = 3
    /\ accessLogs[1].patient = 1 /\ accessLogs[1].accessor = 2
    /\ accessLogs[2].patient = 2
    /\ accessLogs[3].patient = 1
    /\ patientAccessLogs[1] = <<0, 2>>
    /\ patientAccessLogs[2] = <<1>>
    /\ patientAccessLogs[NullAddress] = <<>>

----------------------------------------------------------------------------
(* DataHashContract: the life of a record *)

\* the DataHashStored events of a data ID in an event log
StoredEvents(events, dataId) ==
    {k \in 1 .. Len(events) :
        events[k].name = "DataHashStored" /\ events[k].dataId = dataId}

\* C33: no step deletes a record: a data ID for which getDataHashDetails
\* gives exists = true has it in the next state as well; DataHashStored is
\* in the event log once for a data ID that has a record and not at all for
\* one that has none; and every successful storeDataHash on a data ID that
\* has a record emits DataHashUpdated, also when the hash passed is the one
\* stored.
C33_NeverDeleted ==
    [][ /\ \A dataId \in DataIds :
             /\ recordDetails(dataHashes[dataId]).value[5] =>
                   recordDetails(dataHashes'[dataId]).value[5]
             /\ Cardinality(StoredEvents(hashEvents', dataId)) =
                   IF recordDetails(dataHashes'[dataId]).value[5] THEN 1 ELSE 0
        /\ ( /\ lastCall'.op = "storeDataHash"
             /\ lastCall'.ok
             /\ dataHashes[lastCall'.args[2]].exists ) =>
                /\ Len(hashEvents') = Len(hashEvents) + 1
                /\ LastHashEvent(hashEvents').name = "DataHashUpdated"
                /\ LastHashEvent(hashEvents').dataId = lastCall'.args[2]
      ]_vars

\* a record was stored again with the hash it already had: the second event
\* is DataHashUpdated with oldHash = newHash
C33_Witness ==
    /\ lastCall.op = "storeDataHash"
    /\ lastCall.ok
    /\ Len(hashEvents) = 2
    /\ hashEvents[1].name = "DataHashStored"
    /\ hashEvents[2].name = "DataHashUpdated"
    /\ hashEvents[2].dataId = hashEvents[1].dataId
    /\ hashEvents[2].oldHash = hashEvents[2].newHash
    /\ getDataHashDetails(lastCall.args[2]).value[5]

\* the places <<owner, i>> of the owners' lists that hold a data ID
ListPlacesOf(dataId) ==
    {place \in Addresses \X (1 .. MaxHashes + 1) :
        /\ place[2] <= Len(ownerDataIds[place[1]])
        /\ ownerDataIds[place[1]][place[2]] = dataId}

\* C35: in every state each data ID that has a record is at exactly one
\* place of the owners' lists, in the list of the owner of its record; a data
\* ID without a record is in no list; and getDataHashCount of an owner is the
\* number of records whose owner it is.
C35_ListsMatchRecords ==
    /\ \A dataId \in DataIds :
          IF dataHashes[dataId].exists
          THEN /\ Cardinality(ListPlacesOf(dataId)) = 1
               /\ \A place \in ListPlacesOf(dataId) : place[1] = dataHashes[dataId].owner
          ELSE ListPlacesOf(dataId) = {}
    /\ \A owner \in Addresses :
          getDataHashCount(owner) =
             Cardinality({dataId \in DataIds :
                             dataHashes[dataId].exists /\ dataHashes[dataId].owner = owner})

\* account 1 stored a record and account 2 updated it: the data ID is in the
\* list of account 1 only, and the data ID without a record is in no list
C35_Witness ==
    /\ getDataHashCount(1) = 1
    /\ getDataHashCount(2) = 0
    /\ Len(hashEvents) = 2
    /\ hashEvents[2].name = "DataHashUpdated"
    /\ hashEvents[2].owner = 2
    /\ dataHashes[getDataId(1, 0).value].owner = 1
    /\ \E dataId \in DataIds : ~dataHashes[dataId].exists /\ dataId # ""

\* C36: storeDataHash on a data ID that has a record does not look at who
\* calls: a call by an account other than the owner of the record, with
\* dataId, dataHash and dataType not empty, succeeds, the hash stored is the
\* one passed, the owner of the record is who it was, no owner's list
\* changes, and the DataHashUpdated event names msg.sender, not the owner.
C36_AnyCallerUpdates ==
    [][ ( /\ lastCall'.op = "storeDataHash"
          /\ lastCall'.args[2] # "" /\ lastCall'.args[3] # "" /\ lastCall'.args[4] # ""
          /\ dataHashes[lastCall'.args[2]].exists
          /\ dataHashes[lastCall'.args[2]].owner # lastCall'.args[1] )
        => LET dataId == lastCall'.args[2]
               event == LastHashEvent(hashEvents')
           IN /\ lastCall'.ok
              /\ dataHashes'[dataId].dataHash = lastCall'.args[3]
              /\ dataHashes'[dataId].owner = dataHashes[dataId].owner
              /\ ownerDataIds' = ownerDataIds
              /\ Len(hashEvents') = Len(hashEvents) + 1
              /\ event.name = "DataHashUpdated"
              /\ event.owner = lastCall'.args[1]
              /\ event.owner # dataHashes'[dataId].owner ]_vars

\* account 2 replaced the hash of a record of account 1
C36_Witness ==
    /\ lastCall.op = "storeDataHash"
    /\ lastCall.ok
    /\ lastCall.args[1] = 2
    /\ dataHashes[lastCall.args[2]].owner = 1
    /\ hashEvents[1].dataHash # dataHashes[lastCall.args[2]].dataHash
    /\ LastHashEvent(hashEvents).name = "DataHashUpdated"
    /\ LastHashEvent(hashEvents).owner = 2
    /\ getDataHashCount(2) = 0

----------------------------------------------------------------------------
(* ConsentContract: who changes a consent, and validity over time *)

\* C37: a grantConsent or revokeConsent by msg.sender g naming provider p
\* changes at most consents[g][p]: the consent of every other pair is what it
\* was, and in no step does the consent of a pair change unless msg.sender of
\* the call is the patient of the pair.
C37_OnlyOwnPair ==
    [][ /\ lastCall'.op \in {"grantConsent", "revokeConsent"} =>
              \A pair \in Pairs :
                 pair # <<lastCall'.args[1], lastCall'.args[2]>> =>
                    consents'[pair[1]][pair[2]] = consents[pair[1]][pair[2]]
        /\ \A pair \in Pairs :
              consents'[pair[1]][pair[2]] # consents[pair[1]][pair[2]] =>
                 /\ lastCall'.op \in {"grantConsent", "revokeConsent"}
                 /\ lastCall'.args[1] = pair[1]
      ]_vars

\* account 2 granted consent to account 1 while the consent account 1 gave
\* to account 2 was stored: both are stored, each with its own terms
C37_Witness ==
    /\ lastCall.op = "grantConsent"
    /\ lastCall.ok
    /\ lastCall.args[1] = 2
    /\ lastCall.args[2] = 1
    /\ Len(consentEvents) = 2
    /\ consentEvents[1] = ConsentGranted(1, 2, "full", 0, 1, "checkup")
    /\ consents[1][2] =
          [exists |-> TRUE, accessLevel |-> "full", startDate |-> 0, endDate |-> 1,
           purpose |-> "checkup"]
    /\ consents[2][1].exists
    /\ consents[2][1].accessLevel = "limited"

\* C39: block time never goes back, and for every pair: when a consent is
\* stored and now is past its endDate, checkConsent and hasValidConsent give
\* false, and they give false after every step but a successful grantConsent
\* of that pair; and from false they turn true only by such a grant or, for a
\* stored consent not yet begun, by time reaching its startDate.
C39_ExpiredStaysInvalid ==
    [][ /\ now' >= now
        /\ \A pair \in Pairs :
              LET consent == consents[pair[1]][pair[2]]
                  granted == /\ lastCall'.op = "grantConsent"
                             /\ lastCall'.ok
                             /\ lastCall'.args[1] = pair[1]
                             /\ lastCall'.args[2] = pair[2]
              IN /\ (consent.exists /\ now > consent.endDate) =>
                       /\ ~checkConsent(pair[1], pair[2])[1]
                       /\ ~hasValidConsent(pair[1], pair[2])
                       /\ ~granted =>
                             /\ ~checkConsent(pair[1], pair[2])'[1]
                             /\ ~hasValidConsent(pair[1], pair[2])'
                 /\ (~hasValidConsent(pair[1], pair[2]) /\ hasValidConsent(pair[1], pair[2])') =>
                       \/ granted
                       \/ /\ consent.exists
                          /\ now < consent.startDate
                          /\ now' >= consent.startDate
                          /\ consents' = consents
      ]_vars

\* a consent that ended at time 1 has been invalid at time 2 and is invalid
\* at time 3, with no call on the pair since the grant
C39_Witness ==
    /\ now = MaxTime + 1
    /\ Idle
    /\ Len(consentEvents) = 1
    /\ consents[1][2].exists
    /\ consents[1][2].endDate < MaxTime
    /\ ~checkConsent(1, 2)[1]
    /\ ~hasValidConsent(1, 2)

----------------------------------------------------------------------------
(* AuditContract and ConsentContract *)

\* C38: the outcome of logAccess is fixed by its arguments and the access
\* log alone: whatever consents are stored and whatever the time, a call
\* with patient and accessor other than address(0) and resourceId and
\* accessType not empty succeeds and appends the entry made of its arguments
\* at the next position, and any other call reverts; so an access is logged
\* also for an accessor without a valid consent of the patient.
C38_LogIgnoresConsent ==
    [][ lastCall'.op = "logAccess" =>
          LET patient == lastCall'.args[1]
              accessor == lastCall'.args[2]
              wellFormed == /\ patient # NullAddress
                            /\ accessor # NullAddress
                            /\ lastCall'.args[3] # ""
                            /\ lastCall'.args[4] # ""
          IN /\ lastCall'.ok = wellFormed
             /\ wellFormed =>
                   /\ Len(accessLogs') = Len(accessLogs) + 1
                   /\ SubSeq(accessLogs', 1, Len(accessLogs)) = accessLogs
                   /\ accessLogs'[Len(accessLogs')].patient = patient
                   /\ accessLogs'[Len(accessLogs')].accessor = accessor
                   /\ accessLogs'[Len(accessLogs')].resourceId = lastCall'.args[3]
                   /\ accessLogs'[Len(accessLogs')].accessType = lastCall'.args[4]
                   /\ patientAccessLogs'[patient] =
                         Append(patientAccessLogs[patient], Len(accessLogs))
             /\ ~wellFormed => accessLogs' = accessLogs
      ]_vars

\* an access by account 2 to the data of account 1 was logged after
\* account 1 had revoked the consent it had given to account 2
C38_Witness ==
    /\ lastCall.op = "logAccess"
    /\ lastCall.ok
    /\ lastCall.args[1] = 1
    /\ lastCall.args[2] = 2
    /\ Len(consentEvents) = 2
    /\ consentEvents[1].name = "ConsentGranted"
    /\ consentEvents[2] = ConsentRevoked(1, 2)
    /\ ~hasValidConsent(1, 2)
    /\ accessLogs[Len(accessLogs)].accessor = 2
    /\ accessLogs[Len(accessLogs)].timestamp = now

----------------------------------------------------------------------------
(* The view functions as calls *)

\* mutant: a view that returns also emits an event
viewCall_emits(op, args, err) ==
    /\ Idle
    /\ lastCall' = Receipt(op, args, err)
    /\ hashEvents' = IF err = NoError
                     THEN Append(hashEvents, [name |-> op, dataId |-> ""])
                     ELSE hashEvents
    /\ UNCHANGED <<now, consentVars, auditVars, dataHashes, ownerDataIds, authVars>>

\* a call of a function declared `public view`: it returns or reverts, and
\* the compiler lets it write neither storage nor events
viewCall(op, args, err) ==
    /\ Idle
    /\ lastCall' = Receipt(op, args, err)
    /\ UNCHANGED <<now, consentVars, auditVars, hashVars, authVars>>

Views ==
    {"checkConsent", "hasValidConsent", "verifyDataHash", "getDataHashDetails",
     "dataHashExists", "getDataHashCount", "getDataId", "getAccessLogCount",
     "getAccessLog", "getAccessLogsInTimeRange", "getAccessLogsByAccessor"}

\* the three contracts with their views called between the transactions; the
\* transactions are called with arguments that pass the requires on
\* addresses and strings, and with the block time as timestamp
NextReads ==
    \/ \E sender \in Senders, provider \in Senders, terms \in ConsentTerms,
          startDate \in Timestamps, endDate \in Timestamps :
            /\ grantConsent(sender, provider, terms[1], startDate, endDate, terms[2])
            /\ Committed' <= MaxLedgerOps
    \/ \E sender \in Senders, provider \in Senders :
            /\ revokeConsent(sender, provider)
            /\ Committed' <= MaxLedgerOps
    \/ \E patient \in Senders, accessor \in Senders :
            /\ logAccess(patient, accessor, "rec-1", "view", now)
            /\ Committed' <= MaxLedgerOps
    \/ \E sender \in Senders, dataId \in DataIds \ {""},
          dataHash \in DataHashValues \ {""}, dataType \in DataTypes \ {""} :
            /\ storeDataHash(sender, dataId, dataHash, dataType, now)
            /\ Committed' <= MaxLedgerOps
    \/ \E patient \in Addresses, provider \in Addresses :
            viewCall("checkConsent", <<patient, provider>>, NoError)
    \/ \E patient \in Addresses, provider \in Addresses :
            viewCall("hasValidConsent", <<patient, provider>>, NoError)
    \/ \E dataId \in DataIds, dataHash \in DataHashValues :
            viewCall("verifyDataHash", <<dataId, dataHash>>,
                     verifyDataHash(dataId, dataHash).err)
    \/ \E dataId \in DataIds :
            viewCall("getDataHashDetails", <<dataId>>, getDataHashDetails(dataId).err)
    \/ \E dataId \in DataIds : viewCall("dataHashExists", <<dataId>>, NoError)
    \/ \E owner \in Addresses : viewCall("getDataHashCount", <<owner>>, NoError)
    \/ \E owner \in Addresses, index \in 0 .. MaxHashes :
            viewCall("getDataId", <<owner, index>>, getDataId(owner, index).err)
    \/ \E patient \in Addresses : viewCall("getAccessLogCount", <<patient>>, NoError)
    \/ \E patient \in Addresses, index \in 0 .. MaxLogs :
            viewCall("getAccessLog", <<patient, index>>, getAccessLog(patient, index).err)
    \/ \E patient \in Addresses, startTime \in Timestamps, endTime \in Timestamps,
          maxResults \in {0, MaxLogs} :
            viewCall("getAccessLogsInTimeRange", <<patient, startTime, endTime, maxResults>>,
                     getAccessLogsInTimeRange(patient, startTime, endTime, maxResults).err)
    \/ \E accessor \in Addresses, maxResults \in {0, MaxLogs} :
            viewCall("getAccessLogsByAccessor", <<accessor, maxResults>>,
                     getAccessLogsByAccessor(accessor, maxResults).err)
    \/ Tick
    \/ Dismiss

SpecReads == Init /\ [][NextReads]_vars

\* C31: a call of any view function, whether it returns or reverts, leaves
\* every consent, hash record, owner's list, log entry and patient index as
\* it was and emits no event.
C31_ViewsWriteNothing ==
    [][ lastCall'.op \in Views =>
          /\ consents' = consents
          /\ dataHashes' = dataHashes
          /\ ownerDataIds' = ownerDataIds
          /\ accessLogs' = accessLogs
          /\ patientAccessLogs' = patientAccessLogs
          /\ consentEvents' = consentEvents
          /\ auditEvents' = auditEvents
          /\ hashEvents' = hashEvents
      ]_vars

\* getAccessLog reverted on an index past the one log of the patient, with
\* a hash record stored, and both are as they were
C31_Witness ==
    /\ lastCall.op = "getAccessLog"
    /\ ~lastCall.ok
    /\ lastCall.err = "Index out of bounds"
    /\ getAccessLogCount(lastCall.args[1]) = 1
    /\ lastCall.args[2] = 1
    /\ Len(accessLogs) = 1
    /\ Len(auditEvents) = 1
    /\ Len(hashEvents) = 1
    /\ \E dataId \in DataIds : dataHashExists(dataId)

----------------------------------------------------------------------------
(* The route guard of the frontend (frontend/src/App.js)                   *)
(*                                                                         *)
(* AuthProvider holds user and loading; the token lives in localStorage    *)
(* and survives a page load.  A handler and the render that follows its    *)
(* state updates are one step: a <Navigate> that the render produces has   *)
(* replaced the location before the next event is handled.                 *)

\* the roles the routes of App name
Roles == {"admin", "doctor", "nurse", "patient"}
\* the role field of a user object: a role of Roles, or a value no route allows
RoleValues == Roles \cup {"guest"}
UserData(role) == [role |-> role]
UserDatas == {UserData(role) : role \in RoleValues}

\* a token whose second segment is the base64 of the JSON of userData
Jwt(userData) == [payload |-> userData]
\* a stored string that atob or JSON.parse rejects
MalformedToken == [malformed |-> TRUE]
StoredTokens == {Jwt(userData) : userData \in UserDatas} \cup {MalformedToken}

\* JSON.parse(atob(token.split('.')[1])) returns, or throws
Parses(t) == t \in {Jwt(userData) : userData \in UserDatas}
Decoded(t) == t.payload

\* the paths a browser may ask for: the routes of App, and two that only
\* the "*" route matches
Paths == {"/login", "/register", "/admin", "/doctor", "/nurse", "/patient",
          "/unauthorized", "/guest"}
ProtectedPaths == {"/admin", "/doctor", "/nurse", "/patient"}
\* `/${role}`
RolePath(role) ==
    CASE role = "admin" -> "/admin"
      [] role = "doctor" -> "/doctor"
      [] role = "nurse" -> "/nurse"
      [] role = "patient" -> "/patient"
      [] OTHER -> "/guest"

\* what a component renders
Element(name, arg) == [element |-> name, arg |-> arg]
LoadingPlaceholder == Element("div", "Loading...")
Navigate(to) == Element("Navigate", to)
Page(name) == Element(name, "")

\* allowedRoles and children of the ProtectedRoute at a protected path
AllowedRoles(path) ==
    CASE path = "/admin" -> {"admin"}
      [] path = "/doctor" -> {"doctor"}
      [] path = "/nurse" -> {"nurse"}
      [] path = "/patient" -> {"patient"}
Children(path) ==
    CASE path = "/admin" -> Page("AdminDashboard")
      [] path = "/doctor" -> Page("DoctorDashboard")
      [] path = "/nurse" -> Page("NurseDashboard")
      [] path = "/patient" -> Page("PatientDashboard")

\* ProtectedRoute without the test of the role
ProtectedRoute_noRoleTest(children, allowedRoles) ==
    IF loading THEN LoadingPlaceholder
    ELSE IF user = NoUser THEN Navigate("/login")
    ELSE children

\* ProtectedRoute that tests the user before loading
ProtectedRoute_userFirst(children, allowedRoles) ==
    IF user = NoUser THEN Navigate("/login")
    ELSE IF loading THEN LoadingPlaceholder
    ELSE IF user.role \notin allowedRoles THEN Navigate("/unauthorized")
    ELSE children

ProtectedRoute(children, allowedRoles) ==
    IF loading THEN LoadingPlaceholder
    ELSE IF user = NoUser THEN Navigate("/login")
    ELSE IF user.role \notin allowedRoles THEN Navigate("/unauthorized")
    ELSE children

\* <Routes>: the element of the route that matches path
Routes(path) ==
    CASE path = "/login" -> Page("Login")
      [] path = "/register" -> Page("Register")
      [] path \in ProtectedPaths -> ProtectedRoute(Children(path), AllowedRoles(path))
      [] OTHER -> Navigate("/login")

\* <Navigate to replace>: rendering it replaces the location
Follow(path) ==
    IF Routes(path).element = "Navigate" THEN Routes(path).arg ELSE path
\* the location once no <Navigate> is rendered any more: a protected path
\* leads to /unauthorized at most, that to /login, and /login renders a page
Settle(path) == Follow(Follow(Follow(path)))

\* the mount effect of AuthProvider
checkAuth ==
    /\ loading
    /\ IF token # NoToken
         THEN IF Parses(token)
                THEN /\ user' = Decoded(token)
                     /\ token' = token
                ELSE /\ token' = NoToken
                     /\ user' = user
         ELSE UNCHANGED <<user, token>>
    /\ loading' = FALSE
    /\ \E here \in Paths : here = location /\ location' = Settle(here)'
    /\ UNCHANGED <<now, consentVars, auditVars, hashVars, lastCall>>

\* login of AuthProvider, called by the Login page, which then navigates to
\* the path of the role; neither tests loading
login(userData, newToken) ==
    /\ location = "/login"
    /\ token' = newToken
    /\ user' = userData
    /\ loading' = loading
    /\ location' = Settle(RolePath(userData.role))'
    /\ UNCHANGED <<now, consentVars, auditVars, hashVars, lastCall>>

\* logout of AuthProvider, called by a dashboard, which then navigates to
\* /login
logout ==
    /\ location \in ProtectedPaths
    /\ Routes(location) = Children(location)
    /\ token' = NoToken
    /\ user' = NoUser
    /\ loading' = loading
    /\ location' = Settle("/login")'
    /\ UNCHANGED <<now, consentVars, auditVars, hashVars, lastCall>>

\* a navigation inside the running application
navigate(path) ==
    /\ UNCHANGED <<user, loading, token>>
    /\ location' = Settle(path)'
    /\ UNCHANGED <<now, consentVars, auditVars, hashVars, lastCall>>

\* the browser loads the application at path: AuthProvider mounts with its
\* initial state, localStorage is kept
load(path) ==
    /\ user' = NoUser
    /\ loading' = TRUE
    /\ token' = token
    /\ location' = Settle(path)'
    /\ UNCHANGED <<now, consentVars, auditVars, hashVars, lastCall>>

NextAuth ==
    \/ checkAuth
    \/ \E userData \in UserDatas, newToken \in StoredTokens : login(userData, newToken)
    \/ logout
    \/ \E path \in Paths : navigate(path)
    \/ \E path \in Paths : load(path)

SpecAuth == Init /\ [][NextAuth]_vars

\* what the guard at a protected path renders in the current state
Guard(path) == ProtectedRoute(Children(path), AllowedRoles(path))

\* the guard at path renders as the state of AuthProvider demands
GuardRenders(path) ==
    /\ Guard(path) = Children(path)
         => ~loading /\ user # NoUser /\ user.role \in AllowedRoles(path)
    /\ loading => Guard(path) = LoadingPlaceholder
    /\ ~loading /\ user = NoUser => Guard(path) = Navigate("/login")
    /\ (~loading /\ user # NoUser /\ user.role \notin AllowedRoles(path))
         => Guard(path) = Navigate("/unauthorized")

\* a dashboard is on screen
DashboardShown == location \in ProtectedPaths /\ Routes(location) = Children(location)

\* a step that ends the session from a dashboard: the application keeps
\* running (it is not loaded anew) and no user is signed in after it
LogoutStep == DashboardShown /\ user' = NoUser /\ ~loading'

\* nobody is signed in and no token is stored
SignedOut == user = NoUser /\ token = NoToken

\* C40: ProtectedRoute renders its children only when loading is false, user
\* is not null and user.role is one of allowedRoles; while loading it renders
\* the loading placeholder, with no user it redirects to /login, with a role
\* outside allowedRoles to /unauthorized; a logout removes the token, sets
\* user to null and leaves every protected route redirecting to /login, and
\* that lasts until a login stores a token again.
C40_GuardedRoutes ==
    /\ [](\A path \in ProtectedPaths : GuardRenders(path))
    /\ [](location \in ProtectedPaths /\ ~loading => DashboardShown)
    /\ [][LogoutStep =>
            /\ token' = NoToken
            /\ location' = "/login"
            /\ \A path \in ProtectedPaths : Guard(path)' = Navigate("/login")
         ]_vars
    /\ [][SignedOut /\ token' = NoToken => user' = NoUser]_vars

\* a doctor is signed in and sees the doctor's dashboard, while the guard of
\* the admin route redirects to /unauthorized; a logout is possible here
C40_Witness ==
    /\ ~loading
    /\ user = UserData("doctor")
    /\ location = "/doctor"
    /\ Routes(location) = Page("DoctorDashboard")
    /\ Guard("/admin") = Navigate("/unauthorized")
    /\ token # NoToken
====
